---- MODULE Spec2Model ----
(***************************************************************************)
(* Verification model of the MovieRec recommendation engine                *)
(* (src/backend/recommender): Pearson similarity, rating prediction,       *)
(* user-based collaborative filtering, the popularity fallback, the        *)
(* content-based and hybrid recommenders; of the data loader and the       *)
(* serving path (data_loader.py, main.py, app.py); and of the evaluators   *)
(* (src/backend/evaluator) with the similarity cache of the fast one.      *)
(*                                                                         *)
(* Every engine entry point is a function of one rating-matrix snapshot    *)
(* and the catalog.  The state is that snapshot together with the record   *)
(* of the last call (its operation, its arguments and what it returned);   *)
(* one action per entry point computes the call as the code does.          *)
(*                                                                         *)
(* Numbers.  Ratings are multiples of 0.5 and are kept as half-stars       *)
(* (1..10).  Every other number of the engine is a Python/numpy float.     *)
(* A float is modelled as a binary floating-point number m * 2^e with a    *)
(* significand of at most Prec bits, every operation rounding its exact    *)
(* result to nearest, ties to even, as IEEE-754 does.  binary64 has a      *)
(* 53-bit significand; TLC's integers have 32 bits, so the model keeps     *)
(* the rounding rule and narrows the significand.                          *)
(***************************************************************************)
EXTENDS Integers, Sequences, FiniteSets, TLC

VARIABLES matrix, movies, hash_order, str_order, op, args, ret

\* a FastRecommenderEvaluator, the process-wide sys.stdout, the frames of the
\* threads that run _get_similar_users_cached, and, for each cache key, how
\* often find_similar_users has returned a list for it and how often its
\* entry has been written
VARIABLES evaluator, sys_stdout, frames, history

vars ==
  <<matrix, movies, hash_order, str_order, op, args, ret, evaluator,
    sys_stdout, frames, history>>

(***************************************************************************)
(* Bounds of the model                                                     *)
(***************************************************************************)
\* significand width of the modelled floats (binary64: 53)
Prec == 11

(***************************************************************************)
(* Floating point: value m * 2^e, m odd (or m = 0, e = 0)                  *)
(***************************************************************************)
Abs(n) == IF n < 0 THEN 0 - n ELSE n

Sign(n) == IF n < 0 THEN 0 - 1 ELSE 1

\* number of bits of n >= 0
RECURSIVE BitLen(_)
BitLen(n) == IF n = 0 THEN 0 ELSE 1 + BitLen(n \div 2)

\* the float m * 2^e in its one representation: m odd, or zero
RECURSIVE Canon(_, _)
Canon(m, e) ==
  IF m = 0 THEN [m |-> 0, e |-> 0]
  ELSE IF m % 2 = 0 THEN Canon(m \div 2, e + 1)
  ELSE [m |-> m, e |-> e]

\* q, or q + 1 when the bits cut off (rem, of weight 2 * half) round it up
Nearest(q, rem, half) ==
  IF rem > half \/ (rem = half /\ q % 2 = 1) THEN q + 1 ELSE q

\* n * 2^e with the sh lowest bits of n rounded away
RoundShift(n, e, sh) ==
  Canon(Sign(n) * Nearest(Abs(n) \div (2 ^ sh), Abs(n) % (2 ^ sh),
                          2 ^ (sh - 1)),
        e + sh)

\* the float nearest to n * 2^e, ties to even
RoundBits(n, e, bits) ==
  IF bits <= Prec THEN Canon(n, e) ELSE RoundShift(n, e, bits - Prec)

Round(n, e) == RoundBits(n, e, BitLen(Abs(n)))

FZero == [m |-> 0, e |-> 0]

FInt(n) == Canon(n, 0)

\* a rating read from the matrix: h half-stars = h / 2
FHalf(h) == Canon(h, 0 - 1)

FNeg(x) == [m |-> 0 - x.m, e |-> x.e]

FAbs(x) == [m |-> Abs(x.m), e |-> x.e]

FMul(x, y) == Round(x.m * y.m, x.e + y.e)

\* position of the leading bit
Top(x) == BitLen(Abs(x.m)) + x.e

\* q with its lowest bit set when bits were cut off below it
Sticky(q, rem) == IF rem # 0 /\ q % 2 = 0 THEN q + 1 ELSE q

\* a * 2^s as an integer; bits that fall below are kept as one sticky bit
Shifted(a, s) ==
  IF s >= 0 THEN a * (2 ^ s)
  ELSE IF 0 - s > Prec THEN 1
  ELSE Sticky(a \div (2 ^ (0 - s)), a % (2 ^ (0 - s)))

\* hi + lo, both taken in units of 2^E
AddAligned(hi, lo, E) ==
  Round(hi.m * (2 ^ (hi.e - E)) + Sign(lo.m) * Shifted(Abs(lo.m), lo.e - E),
        E)

\* the unit of an addition: that of the operands, but not more than
\* 2*Prec+2 bits below the larger leading bit
Align(top, e1, e2) ==
  IF top - (2 * Prec + 2) > e1 \/ top - (2 * Prec + 2) > e2
  THEN top - (2 * Prec + 2)
  ELSE IF e1 < e2 THEN e1 ELSE e2

FAdd(x, y) ==
  IF x.m = 0 THEN y
  ELSE IF y.m = 0 THEN x
  ELSE IF Top(x) >= Top(y) THEN AddAligned(x, y, Align(Top(x), x.e, y.e))
  ELSE AddAligned(y, x, Align(Top(y), x.e, y.e))

FSub(x, y) == FAdd(x, FNeg(y))

\* twice the quotient a \div b, lowest bit set when the division is inexact
Quot(a, b) == 2 * (a \div b) + (IF a % b # 0 THEN 1 ELSE 0)

DivShift(x, y, k) ==
  Round(Sign(x.m) * Sign(y.m) * Quot(Abs(x.m) * (2 ^ k), Abs(y.m)),
        x.e - y.e - k - 1)

Max0(k) == IF k < 0 THEN 0 ELSE k

\* x / y, y # 0
FDiv(x, y) ==
  IF x.m = 0 THEN FZero
  ELSE DivShift(x, y, Max0(Prec + 3 + BitLen(Abs(y.m)) - BitLen(Abs(x.m))))

RECURSIVE Newton(_, _)
Newton(n, x) ==
  IF (x + n \div x) \div 2 >= x THEN x ELSE Newton(n, (x + n \div x) \div 2)

\* floor of the square root of n
ISqrt(n) == IF n = 0 THEN 0 ELSE Newton(n, 2 ^ ((BitLen(n) + 1) \div 2))

\* twice the root s of n, lowest bit set when n is not a square
RootSticky(n, s) == 2 * s + (IF s * s = n THEN 0 ELSE 1)

\* k or k + 1, whichever leaves an even exponent e - k
EvenShift(e, k) == IF (e - k) % 2 = 0 THEN k ELSE k + 1

SqrtShift(x, k) ==
  Round(RootSticky(x.m * (2 ^ k), ISqrt(x.m * (2 ^ k))),
        ((x.e - k) \div 2) - 1)

\* numpy.sqrt, x >= 0
FSqrt(x) ==
  IF x.m = 0 THEN FZero
  ELSE SqrtShift(x, EvenShift(x.e, Max0(2 * Prec + 2 - BitLen(x.m))))

\* x < y for x, y > 0: by leading bit, then by significand in a common unit
PosLt(x, y) ==
  IF Top(x) # Top(y) THEN Top(x) < Top(y)
  ELSE IF x.e >= y.e THEN x.m * (2 ^ (x.e - y.e)) < y.m
  ELSE x.m < y.m * (2 ^ (y.e - x.e))

\* x < y
FLt(x, y) ==
  IF x.m > 0 /\ y.m > 0 THEN PosLt(x, y)
  ELSE IF x.m < 0 /\ y.m < 0 THEN PosLt(FNeg(y), FNeg(x))
  ELSE x.m < y.m

\* x <= y
FLe(x, y) == ~FLt(y, x)

FOne == FInt(1)


\* numpy sum of a short array: left to right (pairwise blocks start at 8)
FSum(xs) ==
  LET acc[i \in 0..Len(xs)] == IF i = 0 THEN FZero ELSE FAdd(acc[i - 1], xs[i])
  IN  acc[Len(xs)]

(***************************************************************************)
(* Sequences, Python lists and pandas objects                              *)
(***************************************************************************)
Min(S) == CHOOSE x \in S : \A y \in S : x <= y

\* the elements of a set of ids in ascending order (a pivot_table axis)
RECURSIVE SortedSeq(_)
SortedSeq(S) == IF S = {} THEN <<>> ELSE <<Min(S)>> \o SortedSeq(S \ {Min(S)})

\* lst[:n], n >= 0
Take(lst, n) == SubSeq(lst, 1, IF n < Len(lst) THEN n ELSE Len(lst))

Range(lst) == {lst[i] : i \in 1..Len(lst)}

\* Python's order of the sort keys: a float, or a pair (float, int)
KeyLess(a, b) ==
  \/ FLt(a[1], b[1])
  \/ a[1] = b[1] /\ Len(a) > 1 /\ a[2] < b[2]

\* an element goes behind every element whose key is not smaller than its own
InsertDesc(sorted, i, keys) ==
  LET k == Cardinality({j \in 1..Len(sorted) :
                          ~KeyLess(keys[sorted[j]], keys[i])})
  IN  SubSeq(sorted, 1, k) \o <<i>> \o SubSeq(sorted, k + 1, Len(sorted))

\* the positions of the keys in descending order, equal keys in their order
SortOrder(keys) ==
  LET acc[i \in 0..Len(keys)] ==
        IF i = 0 THEN <<>> ELSE InsertDesc(acc[i - 1], i, keys)
  IN  acc[Len(keys)]

\* lst.sort(key=..., reverse=True) with keys[i] the key of lst[i]: stable
SortDesc(lst, keys) == [j \in 1..Len(lst) |-> lst[SortOrder(keys)[j]]]

\* a missing cell of the matrix (NaN); a rating of h half-stars is <<h>>
NaN == <<>>

isna(c) == c = NaN

\* user_movie_matrix.loc[user_id]: the user's row, a Series over the columns
loc(mx, user_id) == [c \in mx.columns |-> mx.val[<<user_id, c>>]]

\* series.dropna().index
dropna_index(series) == {c \in DOMAIN series : ~isna(series[c])}

\* iteration order of a Python set of movie ids
set_iter(S, order) == SelectSeq(order, LAMBDA x : x \in S)

(***************************************************************************)
(* Strings: sequences of characters                                        *)
(***************************************************************************)
lower_char(c) ==
  CASE c = "A" -> "a"
    [] c = "C" -> "c"
    [] c = "D" -> "d"
    [] OTHER   -> c

\* str.lower()
lower(s) == [i \in 1..Len(s) |-> lower_char(s[i])]

\* sub in s
contains(sub, s) ==
  \E i \in 0..(Len(s) - Len(sub)) : SubSeq(s, i + 1, i + Len(sub)) = sub

\* genre_rejects without the two lower() calls
genre_rejects_case_sensitive(genre_filter, movie_genres) ==
  genre_filter # <<>> /\ ~contains(genre_filter, movie_genres)

\* genre_filter and genre_filter.lower() not in movie_genres.lower()
genre_rejects(genre_filter, movie_genres) ==
  genre_filter # <<>> /\ ~contains(lower(genre_filter), lower(movie_genres))

\* movies[movies['movieId'] == movie_id]
movie_info(mv, movie_id) == SelectSeq(mv, LAMBDA r : r.movieId = movie_id)

(***************************************************************************)
(* similarity.py                                                           *)
(***************************************************************************)
\* np.mean(xs), Series.mean()
mean(xs) == FDiv(FSum(xs), FInt(Len(xs)))

\* xs - m
minus(xs, m) == [i \in 1..Len(xs) |-> FSub(xs[i], m)]

\* np.sum(xs * ys)
sum_products(xs, ys) == FSum([i \in 1..Len(xs) |-> FMul(xs[i], ys[i])])

\* correlation with the sign of the quotient turned
correlation_negated(numerator, denom1, denom2) ==
  IF denom1 = FZero \/ denom2 = FZero THEN FZero
  ELSE FNeg(FDiv(numerator, FSqrt(FMul(denom1, denom2))))

\* lines 46-56: 0.0 on a zero denominator, else the quotient
correlation(numerator, denom1, denom2) ==
  IF denom1 = FZero \/ denom2 = FZero THEN FZero
  ELSE FDiv(numerator, FSqrt(FMul(denom1, denom2)))

\* lines 42-44: numerator, denom1 and denom2 of the deviations from the means
correlation_of(dev1, dev2) ==
  correlation(sum_products(dev1, dev2), sum_products(dev1, dev1),
              sum_products(dev2, dev2))

\* the ratings of a user for the movies, as an array
values(user_ratings, movie_ids) ==
  [i \in 1..Len(movie_ids) |-> FHalf(user_ratings[movie_ids[i]][1])]

pearson_on(user1_ratings, user2_ratings, common_movies) ==
  IF Len(common_movies) < 2 THEN FZero
  ELSE correlation_of(
         minus(values(user1_ratings, common_movies),
               mean(values(user1_ratings, common_movies))),
         minus(values(user2_ratings, common_movies),
               mean(values(user2_ratings, common_movies))))

pearson_correlation(user1_ratings, user2_ratings) ==
  pearson_on(user1_ratings, user2_ratings,
             SortedSeq(dropna_index(user1_ratings)
                         \cap dropna_index(user2_ratings)))

\* similarity > 0
\* is_similar with >= in place of >: zero correlations are kept
is_similar_or_zero(similarity) == similarity.m >= 0

is_similar(similarity) == similarity.m > 0

\* the sort key of a list of (user, similarity) pairs
similarity_keys(similarities) == [i \in 1..Len(similarities) |-> <<similarities[i][2]>>]

find_similar_users(target_user_id, mx, min_common_movies) ==
  IF target_user_id \notin mx.index THEN <<>>
  ELSE
    LET target_user_ratings == loc(mx, target_user_id)
        users == SelectSeq(SortedSeq(mx.index),
                           LAMBDA u : u # target_user_id)
        enough(u) ==
          Cardinality(dropna_index(target_user_ratings)
                        \cap dropna_index(loc(mx, u))) >= min_common_movies
        scored == [i \in 1..Len(users) |->
                     <<users[i],
                       IF enough(users[i])
                       THEN pearson_correlation(target_user_ratings,
                                                loc(mx, users[i]))
                       ELSE FZero>>]
        similarities == SelectSeq(scored, LAMBDA p : is_similar(p[2]))
    IN  SortDesc(similarities, similarity_keys(similarities))

(***************************************************************************)
(* prediction.py                                                           *)
(***************************************************************************)
\* the loop over the users considered and the division that follows it
weighted_average(movie_id, mx, top) ==
  LET rated(i) == ~isna(mx.val[<<top[i][1], movie_id>>])
      rating(i) == FHalf(mx.val[<<top[i][1], movie_id>>][1])
      numerator[i \in 0..Len(top)] ==
        IF i = 0 THEN FZero
        ELSE IF rated(i)
             THEN FAdd(numerator[i - 1], FMul(top[i][2], rating(i)))
             ELSE numerator[i - 1]
      denominator[i \in 0..Len(top)] ==
        IF i = 0 THEN FZero
        ELSE IF rated(i)
             THEN FAdd(denominator[i - 1], FAbs(top[i][2]))
             ELSE denominator[i - 1]
  IN  IF denominator[Len(top)] = FZero THEN FZero
      ELSE FDiv(numerator[Len(top)], denominator[Len(top)])

\* predict_rating that passes over the users who did not rate the movie and
\* takes the first top_k of those who did
predict_rating_among_raters(target_user_id, movie_id, mx, similar_users, top_k) ==
  IF movie_id \notin mx.columns THEN FZero
  ELSE weighted_average(
         movie_id, mx,
         Take(SelectSeq(similar_users,
                        LAMBDA p : ~isna(mx.val[<<p[1], movie_id>>])),
              top_k))

predict_rating(target_user_id, movie_id, mx, similar_users, top_k) ==
  IF movie_id \notin mx.columns THEN FZero
  ELSE weighted_average(movie_id, mx, Take(similar_users, top_k))

\* the first top_k of the users checked, whether they rated the movie or not
get_similar_users_unchecked(movie_id, mx, similar_users, top_k) ==
  IF movie_id \notin mx.columns THEN <<>>
  ELSE [i \in 1..Len(Take(similar_users, top_k)) |-> similar_users[i][1]]

get_similar_users_who_rated(movie_id, mx, similar_users, top_k) ==
  IF movie_id \notin mx.columns THEN <<>>
  ELSE
    LET checked == Take(similar_users, top_k * 2)
        raters  == SelectSeq(checked,
                             LAMBDA p : ~isna(mx.val[<<p[1], movie_id>>]))
        users_who_rated == Take(raters, top_k)
    IN  [i \in 1..Len(users_who_rated) |-> users_who_rated[i][1]]

(***************************************************************************)
(* collaborative_filtering.py                                              *)
(***************************************************************************)
\* min_ratings passed to the fallback by generate_recommendations
CF_MIN_RATINGS == 10

\* top_k passed to get_similar_users_who_rated by generate_recommendations
CF_CONTRIBUTORS == 10

\* key=lambda x: (x['avg_rating'], x['num_ratings'])
stat_keys_mean_only(movie_stats) == [i \in 1..Len(movie_stats) |-> <<movie_stats[i].avg_rating>>]

stat_keys(movie_stats) == [i \in 1..Len(movie_stats) |-> <<movie_stats[i].avg_rating, movie_stats[i].num_ratings>>]

\* rated_by without the user's ratings: nothing counts as already rated
rated_by_nobody(mx, target_user_id) == {}

\* set(user_ratings.dropna().index) of the target user
rated_by(mx, target_user_id) == dropna_index(loc(mx, target_user_id))

\* the ratings of one movie: user_movie_matrix[movie_id].dropna()
movie_ratings(mx, movie_id) ==
  LET raters == SelectSeq(SortedSeq(mx.index),
                          LAMBDA u : ~isna(mx.val[<<u, movie_id>>]))
  IN  [i \in 1..Len(raters) |-> FHalf(mx.val[<<raters[i], movie_id>>][1])]

get_popular_movies_fallback(mx, mv, target_user_id, top_n, genre_filter, min_ratings) ==
  LET rated_movies ==
        IF target_user_id \in mx.index
        THEN rated_by(mx, target_user_id)
        ELSE {}
      considered(movie_id) ==
        /\ Len(movie_ratings(mx, movie_id)) >= min_ratings
        /\ movie_id \notin rated_movies
        /\ Len(movie_info(mv, movie_id)) > 0
        /\ ~genre_rejects(genre_filter, movie_info(mv, movie_id)[1].genres)
      kept == SelectSeq(SortedSeq(mx.columns), considered)
      movie_stats ==
        [i \in 1..Len(kept) |->
           [movie_id    |-> kept[i],
            title       |-> movie_info(mv, kept[i])[1].title,
            avg_rating  |-> mean(movie_ratings(mx, kept[i])),
            num_ratings |-> Len(movie_ratings(mx, kept[i])),
            genres      |-> movie_info(mv, kept[i])[1].genres]]
      top == Take(SortDesc(movie_stats, stat_keys(movie_stats)), top_n)
  IN  [i \in 1..Len(top) |->
         <<top[i].movie_id, top[i].title, top[i].avg_rating, top[i].genres,
           <<>>>>]

\* key=lambda x: x[2]
score_keys(recommendations) == [i \in 1..Len(recommendations) |-> <<recommendations[i][3]>>]

\* sort_by_score without the sort: the predictions in the order they were made
sort_by_score_skipped(predictions) == predictions

\* predictions.sort(key=lambda x: x[2], reverse=True)
sort_by_score(predictions) == SortDesc(predictions, score_keys(predictions))

\* the scored candidates of generate_recommendations before the sort
cf_predictions(target_user_id, mx, mv, order, similar_users, top_k_similar, genre_filter) ==
  LET rated_movies   == rated_by(mx, target_user_id)
      unrated_movies == set_iter(mx.columns \ rated_movies, order)
      scored == [i \in 1..Len(unrated_movies) |->
                   <<unrated_movies[i],
                     predict_rating(target_user_id, unrated_movies[i], mx,
                                    similar_users, top_k_similar)>>]
      keep(p) ==
        /\ p[2].m > 0
        /\ Len(movie_info(mv, p[1])) > 0
        /\ ~genre_rejects(genre_filter, movie_info(mv, p[1])[1].genres)
      kept == SelectSeq(scored, keep)
  IN  [i \in 1..Len(kept) |->
         <<kept[i][1],
           movie_info(mv, kept[i][1])[1].title,
           kept[i][2],
           movie_info(mv, kept[i][1])[1].genres,
           get_similar_users_who_rated(kept[i][1], mx, similar_users,
                                       CF_CONTRIBUTORS)>>]

\* recommendations_or_fallback without lines 196-207: an empty list is returned
recommendations_never_fallback(recommendations, target_user_id, mx, mv, top_n, genre_filter) ==
  <<recommendations, FALSE>>

\* lines 196-213: the fallback when nothing is left to recommend
recommendations_or_fallback(recommendations, target_user_id, mx, mv, top_n, genre_filter) ==
  IF Len(recommendations) = 0
  THEN <<get_popular_movies_fallback(mx, mv, target_user_id, top_n, genre_filter, CF_MIN_RATINGS), TRUE>>
  ELSE <<recommendations, FALSE>>

\* lines 160-213: predict, sort, truncate
recommend_from(similar_users, target_user_id, mx, mv, order, top_n, top_k_similar, genre_filter) ==
  recommendations_or_fallback(
    Take(sort_by_score(cf_predictions(target_user_id, mx, mv, order,
                                      similar_users, top_k_similar,
                                      genre_filter)),
         top_n),
    target_user_id, mx, mv, top_n, genre_filter)

\* lines 140-213: a user of the matrix
recommend_known_user(similar_users, target_user_id, mx, mv, order, top_n, top_k_similar, genre_filter) ==
  IF Len(similar_users) = 0
  THEN <<get_popular_movies_fallback(mx, mv, target_user_id, top_n, genre_filter, CF_MIN_RATINGS), TRUE>>
  ELSE recommend_from(similar_users, target_user_id, mx, mv, order, top_n, top_k_similar, genre_filter)

\* generate_recommendations that treats an unknown user as a cold start
generate_recommendations_cold_unknown(target_user_id, mx, mv, order, top_n, min_common_movies, top_k_similar, genre_filter) ==
  IF target_user_id \notin mx.index
  THEN <<get_popular_movies_fallback(mx, mv, target_user_id, top_n,
                                     genre_filter, CF_MIN_RATINGS), TRUE>>
  ELSE recommend_known_user(
         find_similar_users(target_user_id, mx, min_common_movies),
         target_user_id, mx, mv, order, top_n, top_k_similar, genre_filter)

generate_recommendations(target_user_id, mx, mv, order, top_n, min_common_movies, top_k_similar, genre_filter) ==
  IF target_user_id \notin mx.index THEN <<<<>>, FALSE>>
  ELSE recommend_known_user(
         find_similar_users(target_user_id, mx, min_common_movies),
         target_user_id, mx, mv, order, top_n, top_k_similar, genre_filter)

(***************************************************************************)
(* content_based.py                                                        *)
(***************************************************************************)
\* min_rating default of content_based_recommendations, in half-stars (3.5)
CB_MIN_RATING == 7

\* str.strip() of blanks
RECURSIVE strip(_)
strip(s) ==
  IF s = <<>> THEN s
  ELSE IF Head(s) = " " THEN strip(Tail(s))
  ELSE IF s[Len(s)] = " " THEN strip(SubSeq(s, 1, Len(s) - 1))
  ELSE s

\* str.split('|')
RECURSIVE split(_)
split(s) ==
  IF \A i \in 1..Len(s) : s[i] # "|" THEN <<s>>
  ELSE LET k == Min({i \in 1..Len(s) : s[i] = "|"})
       IN  <<SubSeq(s, 1, k - 1)>> \o split(SubSeq(s, k + 1, Len(s)))

parse_genres(genres_str) ==
  IF genres_str = <<>> THEN {}
  ELSE {strip(g) : g \in Range(split(genres_str))} \ {<<>>}

\* iteration order of a Python set of strings
str_iter(S, order) == SelectSeq(order, LAMBDA x : x \in S)

\* liked_weight without the + 1: a movie rated min_rating weighs nothing
liked_weight_unshifted(rating, min_rating) ==
  FSub(FHalf(rating), FHalf(min_rating))

\* weight = rating - min_rating + 1, the ratings in half-stars
liked_weight(rating, min_rating) ==
  FAdd(FSub(FHalf(rating), FHalf(min_rating)), FOne)

build_user_genre_profile(user_ratings, mv, min_rating) ==
  LET liked_movies ==
        SelectSeq(SortedSeq(DOMAIN user_ratings),
                  LAMBDA c : /\ ~isna(user_ratings[c])
                             /\ user_ratings[c][1] >= min_rating
                             /\ Len(movie_info(mv, c)) > 0)
      genres(i) == parse_genres(movie_info(mv, liked_movies[i])[1].genres)
      weight(i) == liked_weight(user_ratings[liked_movies[i]][1], min_rating)
      \* weight added to total_weight once per genre of the movie
      RECURSIVE times(_, _, _)
      times(acc, w, n) == IF n = 0 THEN acc ELSE times(FAdd(acc, w), w, n - 1)
      total_weight[i \in 0..Len(liked_movies)] ==
        IF i = 0 THEN FZero
        ELSE times(total_weight[i - 1], weight(i), Cardinality(genres(i)))
      all == UNION {genres(i) : i \in 1..Len(liked_movies)}
      genre_scores(g) ==
        LET acc[i \in 0..Len(liked_movies)] ==
              IF i = 0 THEN FZero
              ELSE IF g \in genres(i) THEN FAdd(acc[i - 1], weight(i))
              ELSE acc[i - 1]
        IN  acc[Len(liked_movies)]
  IN  IF total_weight[Len(liked_movies)].m > 0
      THEN [g \in all |->
              FDiv(genre_scores(g), total_weight[Len(liked_movies)])]
      ELSE [g \in {} |-> FZero]

calculate_content_similarity(movie_genres, user_profile, order) ==
  IF movie_genres = {} \/ DOMAIN user_profile = {} THEN FZero
  ELSE
    LET all_genres == str_iter(movie_genres \cup DOMAIN user_profile, order)
        n == Len(all_genres)
        movie_vector == [i \in 1..n |->
                           IF all_genres[i] \in movie_genres
                           THEN FOne ELSE FZero]
        user_vector == [i \in 1..n |->
                          IF all_genres[i] \in DOMAIN user_profile
                          THEN user_profile[all_genres[i]] ELSE FZero]
        dot(x, y) == FSum([i \in 1..n |-> FMul(x[i], y[i])])
        dot_product == dot(movie_vector, user_vector)
        movie_norm == FSqrt(dot(movie_vector, movie_vector))
        user_norm == FSqrt(dot(user_vector, user_vector))
    IN  IF movie_norm = FZero \/ user_norm = FZero THEN FZero
        ELSE FDiv(dot_product, FMul(movie_norm, user_norm))

\* is_match with >= in place of >: movies without a liked genre are kept
is_match_or_zero(similarity) == similarity.m >= 0

\* if similarity > 0
is_match(similarity) == similarity.m > 0

content_based_recommendations(target_user_id, mx, mv, order, sorder, top_n, min_rating, genre_filter) ==
  IF target_user_id \notin mx.index THEN <<>>
  ELSE
    LET user_ratings == loc(mx, target_user_id)
        rated_movies == rated_by(mx, target_user_id)
        user_profile == build_user_genre_profile(user_ratings, mv, min_rating)
        unrated_movies == set_iter(mx.columns \ rated_movies, order)
        info(m) == movie_info(mv, m)[1]
        candidates ==
          SelectSeq(unrated_movies,
                    LAMBDA m : /\ Len(movie_info(mv, m)) > 0
                               /\ ~genre_rejects(genre_filter, info(m).genres))
        scored == [i \in 1..Len(candidates) |->
                     <<candidates[i],
                       info(candidates[i]).title,
                       calculate_content_similarity(
                         parse_genres(info(candidates[i]).genres),
                         user_profile, sorder),
                       info(candidates[i]).genres>>]
        recommendations == SelectSeq(scored, LAMBDA r : is_match(r[3]))
    IN  IF DOMAIN user_profile = {} THEN <<>>
        ELSE Take(sort_by_score(recommendations), top_n)

(***************************************************************************)
(* hybrid.py                                                               *)
(***************************************************************************)
\* normalize_weights without the division: the weights as supplied
normalize_weights_skipped(cf_weight, cb_weight) == <<cf_weight, cb_weight>>

\* lines 49-53: the weights after "Normalize weights"
normalize_weights(cf_weight, cb_weight) ==
  IF FAdd(cf_weight, cb_weight).m > 0
  THEN <<FDiv(cf_weight, FAdd(cf_weight, cb_weight)),
         FDiv(cb_weight, FAdd(cf_weight, cb_weight))>>
  ELSE <<cf_weight, cb_weight>>

\* cb_similarity * 5.0
cb_scaled(cb_similarity) == FMul(cb_similarity, FInt(5))

\* max(a, b) of two floats
FMax(a, b) == IF FLt(a, b) THEN b ELSE a

\* lines 72-78: the content-based list in the format of the CF list
cb_as_cf(cb_recs) ==
  [i \in 1..Len(cb_recs) |->
     <<cb_recs[i][1], cb_recs[i][2], cb_scaled(cb_recs[i][3]), cb_recs[i][4],
       <<>>>>]

\* lines 66-80: what 'switching' returns when the CF list is not returned
switching_fallback(cb_recs) ==
  IF Len(cb_recs) > 0 THEN <<cb_as_cf(cb_recs), TRUE>> ELSE <<<<>>, TRUE>>

\* switching that returns whatever list the CF call produced
switching_returns_fallback(cf, cb_recs) ==
  IF Len(cf[1]) > 0 THEN cf ELSE switching_fallback(cb_recs)

\* lines 57-80
switching(cf, cb_recs) ==
  IF ~cf[2] /\ Len(cf[1]) > 0 THEN <<cf[1], FALSE>>
  ELSE switching_fallback(cb_recs)

\* the keys of movie_scores in insertion order: the movies of the CF list,
\* then the movies that only the content-based list holds
movie_score_ids(cf_recs, cb_recs) ==
  [i \in 1..Len(cf_recs) |-> cf_recs[i][1]]
    \o SelectSeq([i \in 1..Len(cb_recs) |-> cb_recs[i][1]],
                 LAMBDA m : \A j \in 1..Len(cf_recs) : cf_recs[j][1] # m)

\* the entries of a list for one movie
entries_of(recs, movie_id) == SelectSeq(recs, LAMBDA rec : rec[1] = movie_id)

\* movie_scores[movie_id] after both loops
movie_score(cf_of, cb_of) ==
  [cf_score |-> IF Len(cf_of) > 0 THEN cf_of[1][3] ELSE FZero,
   cb_score |-> IF Len(cb_of) > 0
                THEN FMax(FZero, cb_scaled(cb_of[1][3])) ELSE FZero,
   genres   |-> IF Len(cf_of) > 0 /\ cf_of[1][4] # <<>> THEN cf_of[1][4]
                ELSE IF Len(cb_of) > 0 THEN cb_of[1][4] ELSE <<>>,
   similar_users |-> IF Len(cf_of) > 0 THEN cf_of[1][5] ELSE <<>>,
   title    |-> IF Len(cf_of) > 0 /\ cf_of[1][2] # "" THEN cf_of[1][2]
                ELSE IF Len(cb_of) > 0 THEN cb_of[1][2] ELSE ""]

\* movie_scores.items()
movie_scores(cf_recs, cb_recs) ==
  [i \in 1..Len(movie_score_ids(cf_recs, cb_recs)) |->
     <<movie_score_ids(cf_recs, cb_recs)[i],
       movie_score(entries_of(cf_recs, movie_score_ids(cf_recs, cb_recs)[i]),
                   entries_of(cb_recs, movie_score_ids(cf_recs, cb_recs)[i]))>>]

\* combined_score without the content-based term
combined_score_cf_only(scores, weights) == FMul(scores.cf_score, weights[1])

\* scores['cf_score'] * cf_weight + scores['cb_score'] * cb_weight
combined_score(scores, weights) ==
  FAdd(FMul(scores.cf_score, weights[1]), FMul(scores.cb_score, weights[2]))

\* lines 111-125: the combined list of 'mixed' before the sort
mixed_combined(items, mv, weights) ==
  LET kept == SelectSeq(items,
                        LAMBDA it : /\ combined_score(it[2], weights).m > 0
                                    /\ Len(movie_info(mv, it[1])) > 0)
  IN  [i \in 1..Len(kept) |->
         <<kept[i][1], movie_info(mv, kept[i][1])[1].title,
           combined_score(kept[i][2], weights), kept[i][2].genres,
           kept[i][2].similar_users>>]

\* mixed without the cut to top_n
mixed_uncut(cf, cb_recs, mv, top_n, weights) ==
  <<sort_by_score(mixed_combined(movie_scores(cf[1], cb_recs), mv, weights)),
    cf[2] /\ Len(cb_recs) = 0>>

\* lines 84-131
mixed(cf, cb_recs, mv, top_n, weights) ==
  <<Take(sort_by_score(mixed_combined(movie_scores(cf[1], cb_recs), mv,
                                      weights)), top_n),
    cf[2] /\ Len(cb_recs) = 0>>

\* lines 174-191: the combined list of 'weighted' before the sort
weighted_combined(items, genre_filter, weights) ==
  LET kept == SelectSeq(items,
                        LAMBDA it : /\ ~genre_rejects(genre_filter, it[2].genres)
                                    /\ \/ it[2].cf_score.m > 0
                                       \/ it[2].cb_score.m > 0)
  IN  [i \in 1..Len(kept) |->
         <<kept[i][1], kept[i][2].title, combined_score(kept[i][2], weights),
           kept[i][2].genres, kept[i][2].similar_users>>]

\* weighted_result without the special case of the empty list
weighted_result_as_mixed(recommendations, is_cold_start) ==
  <<recommendations, is_cold_start>>

\* lines 197-204: the flag returned with the list of 'weighted'
weighted_result(recommendations, is_cold_start) ==
  IF Len(recommendations) = 0 THEN <<recommendations, TRUE>>
  ELSE <<recommendations, is_cold_start>>

\* lines 135-204, cf and cb_recs made with top_n * 2 and no genre filter
weighted(cf, cb_recs, top_n, genre_filter, weights) ==
  weighted_result(
    Take(sort_by_score(weighted_combined(movie_scores(cf[1], cb_recs),
                                         genre_filter, weights)), top_n),
    cf[2] /\ Len(cb_recs) = 0)

hybrid_recommendations(target_user_id, mx, mv, order, sorder, top_n, cf_weight, cb_weight, min_common_movies, top_k_similar, genre_filter, hybrid_method) ==
  IF hybrid_method = "switching"
  THEN switching(
         generate_recommendations(target_user_id, mx, mv, order, top_n,
                                  min_common_movies, top_k_similar,
                                  genre_filter),
         content_based_recommendations(target_user_id, mx, mv, order, sorder,
                                       top_n, CB_MIN_RATING, genre_filter))
  ELSE IF hybrid_method = "mixed"
  THEN mixed(
         generate_recommendations(target_user_id, mx, mv, order, top_n,
                                  min_common_movies, top_k_similar,
                                  genre_filter),
         content_based_recommendations(target_user_id, mx, mv, order, sorder,
                                       top_n, CB_MIN_RATING, genre_filter),
         mv, top_n, normalize_weights(cf_weight, cb_weight))
  ELSE weighted(
         generate_recommendations(target_user_id, mx, mv, order, top_n * 2,
                                  min_common_movies, top_k_similar, <<>>),
         content_based_recommendations(target_user_id, mx, mv, order, sorder,
                                       top_n * 2, CB_MIN_RATING, <<>>),
         top_n, genre_filter, normalize_weights(cf_weight, cb_weight))

\* a method name that is not known raises
call_hybrid_recommendations_raising(target_user_id, mx, mv, order, sorder, top_n, cf_weight, cb_weight, top_k_similar, genre_filter, hybrid_method) ==
  IF hybrid_method \in {"weighted", "mixed", "switching"}
  THEN [raised |-> "",
        value |-> hybrid_recommendations(target_user_id, mx, mv, order,
                                         sorder, top_n, cf_weight, cb_weight,
                                         2, top_k_similar, genre_filter,
                                         hybrid_method)]
  ELSE [raised |-> "ValueError", value |-> <<>>]

\* a call of hybrid_recommendations: no branch of lines 55, 82 and 133
\* raises, whatever hybrid_method is
call_hybrid_recommendations(target_user_id, mx, mv, order, sorder, top_n, cf_weight, cb_weight, top_k_similar, genre_filter, hybrid_method) ==
  [raised |-> "",
   value |-> hybrid_recommendations(target_user_id, mx, mv, order, sorder,
                                    top_n, cf_weight, cb_weight, 2,
                                    top_k_similar, genre_filter,
                                    hybrid_method)]

(***************************************************************************)
(* evaluator: metrics.py, evaluator.py, fast_evaluator.py                  *)
(***************************************************************************)
\* the share of the items without a positive prediction
calculate_coverage_of_rest(predictions, all_items) ==
  IF Cardinality(all_items) = 0 THEN FZero
  ELSE FDiv(FInt(Cardinality(
                   all_items \ {predictions[i][1] : i \in
                                  {j \in 1..Len(predictions) :
                                     FLt(FZero, predictions[j][2])}})),
            FInt(Cardinality(all_items)))

\* metrics.py: len(predictable_items) / len(all_items), predictions the
\* items of the dictionary
calculate_coverage(predictions, all_items) ==
  IF Cardinality(all_items) = 0 THEN FZero
  ELSE FDiv(FInt(Cardinality(
                   {predictions[i][1] : i \in
                      {j \in 1..Len(predictions) :
                         FLt(FZero, predictions[j][2])}})),
            FInt(Cardinality(all_items)))

\* coverage_predictions[movie_id] = max(coverage_predictions[movie_id],
\* pred_rating) on a defaultdict(float), the dictionary as its items
store_prediction(coverage_predictions, rec) ==
  IF \E j \in 1..Len(coverage_predictions) :
       coverage_predictions[j][1] = rec[1]
  THEN [coverage_predictions
          EXCEPT ![CHOOSE j \in 1..Len(coverage_predictions) :
                     coverage_predictions[j][1] = rec[1]] =
                   <<rec[1], FMax(@[2], rec[3])>>]
  ELSE Append(coverage_predictions, <<rec[1], FMax(FZero, rec[3])>>)

\* "for rec in recommendations" around store_prediction
store_predictions(coverage_predictions, recommendations) ==
  LET acc[i \in 0..Len(recommendations)] ==
        IF i = 0 THEN coverage_predictions
        ELSE store_prediction(acc[i - 1], recommendations[i])
  IN  acc[Len(recommendations)]

\* coverage_predictions after the loop over the users, results[i] the
\* recommendations of the i-th evaluated user and their cold-start flag
coverage_predictions_of(results) ==
  LET acc[i \in 0..Len(results)] ==
        IF i = 0 THEN <<>> ELSE store_predictions(acc[i - 1], results[i][1])
  IN  acc[Len(results)]

\* the part of the results that the coverage is made of
evaluation_results(coverage_predictions, cold_start_count, all_items) ==
  [coverage_predictions |-> coverage_predictions,
   cold_start_count |-> cold_start_count,
   coverage |-> calculate_coverage(coverage_predictions, all_items)]

\* the results of the loop over test_users, results those of the users with
\* a row of the training matrix; the other users count as cold starts
evaluation_of(results, test_users, all_items) ==
  evaluation_results(
    coverage_predictions_of(results),
    (Len(test_users) - Len(results))
      + Cardinality({i \in 1..Len(results) : results[i][2]}),
    all_items)

\* generate_recommendations for the users evaluated, one after the other
cf_results(evaluated, mx, mv, order, top_n, min_common_movies, top_k_similar) ==
  LET acc[i \in 0..Len(evaluated)] ==
        IF i = 0 THEN <<>>
        ELSE Append(acc[i - 1],
                    generate_recommendations(evaluated[i], mx, mv, order,
                                             top_n, min_common_movies,
                                             top_k_similar, <<>>))
  IN  acc[Len(evaluated)]

\* RecommenderEvaluator.evaluate
evaluate(test_users, mx, mv, order, top_n, min_common_movies, top_k_similar) ==
  evaluation_of(
    cf_results(SelectSeq(test_users, LAMBDA u : u \in mx.index), mx, mv,
               order, top_n, min_common_movies, top_k_similar),
    test_users, mx.columns)

\* FastRecommenderEvaluator._predict_ratings_for_movies: the dictionary as
\* the sequence of its items
predict_ratings_for_movies(user_id, movie_ids, mx, order, similar_users, top_k_similar) ==
  LET known == set_iter(movie_ids \cap mx.columns, order)
  IN  SelectSeq([i \in 1..Len(known) |->
                   <<known[i],
                     predict_rating(user_id, known[i], mx, similar_users,
                                    top_k_similar)>>],
                LAMBDA p : FLt(FZero, p[2]))

\* min_ratings of the popular movies the fast evaluator fills a list with
FAST_MIN_RATINGS == 10

\* the first top_n of the sorted predictions that the catalog knows
known_predictions(predictions, mv, top_n) ==
  SelectSeq(Take(SortDesc(predictions,
                          [i \in 1..Len(predictions) |->
                             <<predictions[i][2]>>]),
                 top_n),
            LAMBDA p : Len(movie_info(mv, p[1])) > 0)

\* lines 242-248: the recommendations made of the predictions
top_predictions(known, mv) ==
  [i \in 1..Len(known) |->
     <<known[i][1], movie_info(mv, known[i][1])[1].title, known[i][2],
       movie_info(mv, known[i][1])[1].genres, <<>>>>]

\* lines 250-268: the list filled up with popular movies
fill_with_popular(recommendations, user_id, mx, mv, top_n) ==
  IF Len(recommendations) < top_n
  THEN recommendations
         \o Take(SelectSeq(get_popular_movies_fallback(
                             mx, mv, user_id, top_n * 2, <<>>,
                             FAST_MIN_RATINGS),
                           LAMBDA rec :
                             /\ \A i \in 1..Len(recommendations) :
                                  recommendations[i][1] # rec[1]
                             /\ rec[1] \notin rated_by(mx, user_id)),
                 top_n - Len(recommendations))
  ELSE recommendations

\* FastRecommenderEvaluator._get_top_recommendations
get_top_recommendations(user_id, predictions, mx, mv, top_n) ==
  Take(sort_by_score(
         fill_with_popular(
           top_predictions(known_predictions(predictions, mv, top_n), mv),
           user_id, mx, mv, top_n)),
       top_n)

\* the body of the loop of FastRecommenderEvaluator.evaluate for one user:
\* the recommendations, and whether the user counts as a cold start
fast_result(user_id, test_movies, similar_users, mx, mv, order, top_n, top_k_similar) ==
  <<get_top_recommendations(
      user_id,
      IF Len(similar_users) = 0 THEN <<>>
      ELSE predict_ratings_for_movies(user_id, test_movies, mx, order,
                                      similar_users, top_k_similar),
      mx, mv, top_n),
    Len(similar_users) = 0>>

\* fast_result for the users evaluated, one after the other
fast_results(evaluated, test_movies, mx, mv, order, top_n, min_common_movies, top_k_similar) ==
  LET acc[i \in 0..Len(evaluated)] ==
        IF i = 0 THEN <<>>
        ELSE Append(acc[i - 1],
                    fast_result(evaluated[i], test_movies[evaluated[i]],
                                find_similar_users(evaluated[i], mx,
                                                   min_common_movies),
                                mx, mv, order, top_n, top_k_similar))
  IN  acc[Len(evaluated)]

\* FastRecommenderEvaluator.evaluate, test_movies[u] the test movies of u
fast_evaluate(test_users, test_movies, mx, mv, order, top_n, min_common_movies, top_k_similar) ==
  evaluation_of(
    fast_results(SelectSeq(test_users, LAMBDA u : u \in mx.index),
                 test_movies, mx, mv, order, top_n, min_common_movies,
                 top_k_similar),
    test_users, mx.columns)

(***************************************************************************)
(* data_loader.py                                                          *)
(***************************************************************************)
\* ratings.pivot_table(index='userId', columns='movieId', values='rating'):
\* one row per user and one column per movie of the records, both sorted
create_user_movie_matrix(ratings) ==
  LET index   == {r.userId : r \in ratings}
      columns == {r.movieId : r \in ratings}
      recs(u, m) == {r \in ratings : r.userId = u /\ r.movieId = m}
  IN  [index   |-> index,
       columns |-> columns,
       val     |-> [p \in index \X columns |->
                      IF recs(p[1], p[2]) = {} THEN NaN
                      ELSE <<(CHOOSE r \in recs(p[1], p[2]) : TRUE).rating>>]]

\* an Optional[int] that is None; the integer n is <<n>>
None == <<>>

\* counts.head(n).index of value_counts(): the n most frequent ids, ids the
\* ids in the order that ids of the same frequency come in
value_counts_head(ids, counts, n) ==
  Range(Take(SortDesc(ids, [i \in 1..Len(ids) |-> <<FInt(counts[ids[i]])>>]),
             n))

\* the user cap left out
most_active_users_uncapped(ratings, max_users, user_order) == ratings

\* lines 31-37: the ratings of the max_users most active users
most_active_users(ratings, max_users, user_order) ==
  IF max_users # None /\ max_users[1] > 0
  THEN {rec \in ratings :
          rec.userId \in value_counts_head(
            SelectSeq(user_order,
                      LAMBDA u : \E x \in ratings : x.userId = u),
            [u \in Range(user_order) |->
               Cardinality({x \in ratings : x.userId = u})],
            max_users[1])}
  ELSE ratings

\* lines 39-47: the ratings and the catalog of the max_movies most rated movies
most_rated_movies(ratings, mv, max_movies, movie_order) ==
  IF max_movies # None /\ max_movies[1] > 0
  THEN LET top_movies ==
             value_counts_head(
               SelectSeq(movie_order,
                         LAMBDA m : \E x \in ratings : x.movieId = m),
               [m \in Range(movie_order) |->
                  Cardinality({x \in ratings : x.movieId = m})],
               max_movies[1])
       IN  <<{rec \in ratings : rec.movieId \in top_movies},
             SelectSeq(mv, LAMBDA row : row.movieId \in top_movies)>>
  ELSE <<ratings, mv>>

\* the body of load_data, the two files read as ratings and mv
load_data(ratings, mv, max_users, max_movies, user_order, movie_order) ==
  most_rated_movies(most_active_users(ratings, max_users, user_order), mv,
                    max_movies, movie_order)

\* lines 11-13: the parameters of load_data
load_data_parameters == {"ratings_path", "movies_path", "max_users", "max_movies"}

\* a call of load_data with keyword arguments: a keyword that is not a
\* parameter raises TypeError before the body runs
call_load_data(ratings, mv, kwargs, user_order, movie_order) ==
  IF DOMAIN kwargs \subseteq load_data_parameters
  THEN [raised |-> "",
        value |-> load_data(ratings, mv,
                            IF "max_users" \in DOMAIN kwargs
                            THEN kwargs.max_users ELSE None,
                            IF "max_movies" \in DOMAIN kwargs
                            THEN kwargs.max_movies ELSE None,
                            user_order, movie_order)]
  ELSE [raised |-> "TypeError", value |-> <<>>]

(***************************************************************************)
(* main.py                                                                 *)
(***************************************************************************)
\* lines 63-78: the matrix, the recommendations and "if not recommendations"
recommendations_for(user_id, top_n, genre, ratings, mv, order) ==
  LET made == generate_recommendations(user_id,
                                       create_user_movie_matrix(ratings), mv,
                                       order, top_n, 5, 50, genre)
  IN  IF Len(made[1]) = 0 THEN <<<<>>, FALSE>> ELSE made

\* lines 60-78 after the call of load_data
serve_loaded(loaded, user_id, top_n, genre, order) ==
  IF loaded.raised # "" THEN loaded
  ELSE [raised |-> "",
        value |-> recommendations_for(user_id, top_n, genre, loaded.value[1],
                                      loaded.value[2], order)]

\* get_recommendations: the recommendations before they are formatted
get_recommendations(user_id, top_n, genre, ratings, mv, max_users, max_movies, user_order, movie_order, order) ==
  serve_loaded(
    call_load_data(ratings, mv,
                   [max_users |-> max_users, max_movies |-> max_movies,
                    required_user_id |-> <<user_id>>],
                   user_order, movie_order),
    user_id, top_n, genre, order)

\* lines 20-28: the parameters of get_recommendations
get_recommendations_parameters ==
  {"user_id", "top_n", "genre", "ratings_path", "movies_path", "max_users",
   "max_movies", "download_images", "image_dir"}

\* a call of get_recommendations with keyword arguments
call_get_recommendations(kwargs, ratings, mv, user_order, movie_order, order) ==
  IF DOMAIN kwargs \subseteq get_recommendations_parameters
  THEN get_recommendations(kwargs.user_id, kwargs.top_n, kwargs.genre,
                           ratings, mv, kwargs.max_users, kwargs.max_movies,
                           user_order, movie_order, order)
  ELSE [raised |-> "TypeError", value |-> <<>>]

(***************************************************************************)
(* app.py                                                                  *)
(***************************************************************************)
MAX_USERS == 2000

MAX_MOVIES == 2000

\* lines 114-125: the hybrid_method of a request whose weights are numbers
validated_method(hybrid_method) ==
  IF hybrid_method \notin {"weighted", "mixed", "switching"}
  THEN "weighted" ELSE hybrid_method

\* lines 142-182: the response to the outcome of get_recommendations
response(outcome) ==
  IF outcome.raised # ""
  THEN [status |-> 500, success |-> FALSE, recommendations |-> <<>>,
        is_cold_start |-> FALSE]
  ELSE IF Len(outcome.value[1]) = 0
  THEN [status |-> 200, success |-> FALSE, recommendations |-> <<>>,
        is_cold_start |-> FALSE]
  ELSE [status |-> 200, success |-> TRUE,
        recommendations |-> outcome.value[1],
        is_cold_start |-> outcome.value[2]]

\* POST /api/recommendations with a body whose user_id is a positive
\* number, top_n in 1..100 and numeric weights (lines 112-182)
api_recommendations(data, ratings, mv, user_order, movie_order, order) ==
  response(
    call_get_recommendations(
      [user_id |-> data.user_id, top_n |-> data.top_n, genre |-> data.genre,
       ratings_path |-> "dataset/ratings.csv",
       movies_path |-> "dataset/movies.csv", max_users |-> <<MAX_USERS>>,
       max_movies |-> <<MAX_MOVIES>>, download_images |-> TRUE,
       image_dir |-> "movie_posters", cf_weight |-> data.cf_weight,
       cb_weight |-> data.cb_weight,
       hybrid_method |-> validated_method(data.hybrid_method)],
      ratings, mv, user_order, movie_order, order))


(***************************************************************************)
(* fast_evaluator.py: the evaluator object and its similarity cache        *)
(***************************************************************************)
\* lines 57-79: the evaluator after __init__; an attribute that is None is
\* <<>> and one that is set is <<value>>; the dictionary similarity_cache is
\* the function from its keys to their lists
FastRecommenderEvaluator(test_ratio, min_ratings_per_user, random_seed) ==
  [test_ratio |-> test_ratio, min_ratings_per_user |-> min_ratings_per_user,
   random_seed |-> random_seed, train_ratings |-> None,
   test_ratings |-> None, train_matrix |-> None, similarity_cache |-> <<>>]

\* int(x) of a float that is not negative
int(x) == IF x.e >= 0 THEN x.m * (2 ^ x.e) ELSE x.m \div (2 ^ (0 - x.e))

\* user_group.sample(frac=1, random_state=user_seed): a permutation of the
\* group that the seed fixes; the model takes the rotation by the seed
sample(user_group, user_seed) ==
  [i \in 1..Len(user_group) |->
     user_group[((i - 1 + user_seed) % Len(user_group)) + 1]]

\* line 156, (self.random_seed + int(user_id)) % (2**31): the sum itself, the
\* seeds and the user ids being far below 2**31
user_seed(random_seed, user_id) == random_seed + user_id

\* lines 154-163: the test part and the training part of the ratings of one
\* user, user_group in file order
split_group(user_group, user_id, test_ratio, random_seed) ==
  LET shuffled == sample(user_group, user_seed(random_seed, user_id))
      n        == int(FMul(FInt(Len(shuffled)), test_ratio))
      n_test   == IF n < 1 THEN 1 ELSE n
  IN  [test  |-> SubSeq(shuffled, 1, n_test),
       train |-> SubSeq(shuffled, n_test + 1, Len(shuffled))]

\* the records of a user in file order (by movie id)
user_group_of(all_ratings, user_id) ==
  LET ids == SortedSeq({rec.movieId : rec \in
                          {x \in all_ratings : x.userId = user_id}})
  IN  [i \in 1..Len(ids) |->
         CHOOSE rec \in all_ratings :
           rec.userId = user_id /\ rec.movieId = ids[i]]

\* lines 98-102: the users with at least min_ratings_per_user ratings, in
\* file order
valid_users(all_ratings, min_ratings_per_user) ==
  SortedSeq({u \in {rec.userId : rec \in all_ratings} :
               Cardinality({x \in all_ratings : x.userId = u})
                 >= min_ratings_per_user})

\* split_data: <<train_ratings, test_ratings>>, the test ratings in the
\* order the groups are concatenated in
split_data(ev, all_ratings) ==
  LET users == valid_users(all_ratings, ev.min_ratings_per_user)
      acc[i \in 0..Len(users)] ==
        IF i = 0 THEN <<{}, <<>>>>
        ELSE LET parts == split_group(user_group_of(all_ratings, users[i]),
                                      users[i], ev.test_ratio,
                                      ev.random_seed)
             IN  <<acc[i - 1][1] \cup Range(parts.train),
                   acc[i - 1][2] \o parts.test>>
  IN  acc[Len(users)]

\* lines 170-171: the evaluator with the two parts stored
with_split(ev, parts) ==
  [ev EXCEPT !.train_ratings = <<parts[1]>>, !.test_ratings = <<parts[2]>>]

\* the evaluator after split_data (lines 96, 170-171)
after_split_data(ev, all_ratings) == with_split(ev, split_data(ev, all_ratings))

\* self.similarity_cache[cache_key] = similar_users
cache_set(similarity_cache, cache_key, similar_users) ==
  [k \in DOMAIN similarity_cache \cup {cache_key} |->
     IF k = cache_key THEN similar_users ELSE similarity_cache[k]]

\* find_similar_users(user_id, self.train_matrix, min_common_movies) of line
\* 185: a train_matrix that is None has no index and raises AttributeError
call_find_similar_users(train_matrix, user_id, min_common_movies) ==
  IF train_matrix = None THEN [raised |-> "AttributeError", value |-> <<>>]
  ELSE [raised |-> "",
        value |-> find_similar_users(user_id, train_matrix[1],
                                     min_common_movies)]

\* lines 185-191 with the outcome of find_similar_users: an exception
\* leaves the method before the entry is written
computed_entry(similarity_cache, cache_key, found) ==
  IF found.raised # ""
  THEN [raised |-> found.raised, value |-> <<>>,
        similarity_cache |-> similarity_cache, computed |-> {}]
  ELSE [raised |-> "", value |-> found.value,
        similarity_cache |-> cache_set(similarity_cache, cache_key,
                                       found.value),
        computed |-> {cache_key}]

\* the lookup without the test of line 178
cached_always_computed(similarity_cache, train_matrix, user_id, min_common_movies) ==
  computed_entry(similarity_cache, <<user_id, min_common_movies>>,
                 call_find_similar_users(train_matrix, user_id,
                                         min_common_movies))

\* _get_similar_users_cached run by one thread from its call to its return:
\* what it raises or returns, the cache it leaves and the keys that
\* find_similar_users returned a list for
get_similar_users_cached(similarity_cache, train_matrix, user_id, min_common_movies) ==
  IF <<user_id, min_common_movies>> \in DOMAIN similarity_cache
  THEN [raised |-> "",
        value |-> similarity_cache[<<user_id, min_common_movies>>],
        similarity_cache |-> similarity_cache, computed |-> {}]
  ELSE computed_entry(similarity_cache, <<user_id, min_common_movies>>,
                      call_find_similar_users(train_matrix, user_id,
                                              min_common_movies))

\* test_ratings['userId'].unique()
unique_users(test_ratings) ==
  LET acc[i \in 0..Len(test_ratings)] ==
        IF i = 0 THEN <<>>
        ELSE IF test_ratings[i].userId \in Range(acc[i - 1]) THEN acc[i - 1]
        ELSE Append(acc[i - 1], test_ratings[i].userId)
  IN  acc[Len(test_ratings)]

\* the test movies of a user (lines 339, 352, 356)
user_test_movies(test_ratings, user_id) ==
  {test_ratings[i].movieId :
     i \in {j \in 1..Len(test_ratings) : test_ratings[j].userId = user_id}}

\* lines 345-413 for one user: the state of the loop after the user, got
\* being what _get_similar_users_cached returned
evaluate_user(before, got, user_id, test_ratings, train_matrix, mv, order, top_n, top_k_similar) ==
  <<Append(before[1],
           fast_result(user_id, user_test_movies(test_ratings, user_id),
                       got.value, train_matrix[1], mv, order, top_n,
                       top_k_similar)),
    got.similarity_cache, before[3] \cup got.computed>>

\* lines 329-417: the loop of evaluate over the users with a training row,
\* <<results, similarity_cache, keys computed>>
evaluate_loop(evaluated, test_ratings, similarity_cache, train_matrix, mv, order, top_n, min_common_movies, top_k_similar) ==
  LET acc[i \in 0..Len(evaluated)] ==
        IF i = 0 THEN <<<<>>, similarity_cache, {}>>
        ELSE evaluate_user(acc[i - 1],
                           get_similar_users_cached(acc[i - 1][2],
                                                    train_matrix,
                                                    evaluated[i],
                                                    min_common_movies),
                           evaluated[i], test_ratings, train_matrix, mv,
                           order, top_n, top_k_similar)
  IN  acc[Len(evaluated)]

\* lines 419-476: the evaluator and the results after the loop
evaluate_end(ev, train_matrix, test_users, looped) ==
  [evaluator |-> [ev EXCEPT !.train_matrix = train_matrix,
                            !.similarity_cache = looped[2]],
   results |-> evaluation_of(looped[1], test_users, train_matrix[1].columns),
   computed |-> looped[3]]

\* lines 305-476 on the training matrix of line 302
evaluate_on(ev, train_matrix, test_users, mv, order, top_n, min_common_movies, top_k_similar) ==
  evaluate_end(ev, train_matrix, test_users,
               evaluate_loop(SelectSeq(test_users,
                                       LAMBDA u : u \in train_matrix[1].index),
                             ev.test_ratings[1], ev.similarity_cache,
                             train_matrix, mv, order, top_n,
                             min_common_movies, top_k_similar))

\* evaluate on an evaluator whose ratings are split (lines 300-476)
evaluate_split(ev, mv, order, top_n, min_common_movies, top_k_similar) ==
  evaluate_on(ev, <<create_user_movie_matrix(ev.train_ratings[1])>>,
              unique_users(ev.test_ratings[1]), mv, order, top_n,
              min_common_movies, top_k_similar)

\* FastRecommenderEvaluator.evaluate: the ratings are split when they have
\* not been (lines 297-298)
evaluator_evaluate(ev, all_ratings, mv, order, top_n, min_common_movies, top_k_similar) ==
  evaluate_split(IF ev.train_ratings = None
                 THEN after_split_data(ev, all_ratings) ELSE ev,
                 mv, order, top_n, min_common_movies, top_k_similar)


(***************************************************************************)
(* Inputs: rating records and catalogs the calls are made on               *)
(***************************************************************************)
\* largest top_n, top_k and min_common_movies of a call
MaxTopN == 2

MaxTopK == 2

MaxMinCommon == 3

\* users of the crowd matrices that share one row of ratings
NCrowd == 10

Movies == {1, 2, 3, 4}

\* the users a call names: three with a row, and one without any record
Users == {1, 2, 3}

AbsentUsers == {99}

\* a movie id that is not a column of the matrix
AbsentMovies == {9}

TopNs == 1..MaxTopN

TopKs == 1..MaxTopK

MinCommons == 2..MaxMinCommon

\* min_ratings of a direct call of the fallback
MinRatings == {1, 2, 3}

\* the rows <<cell of movie 1, ..., cell of movie 4>> with cells from S1..S4
Rows(S1, S2, S3, S4) ==
  {<<a, b, c, d>> : a \in S1, b \in S2, c \in S3, d \in S4}

\* the rating records of the rows, rows : user id -> row
Records(rows) ==
  {[userId |-> u, movieId |-> m, rating |-> rows[u][m][1]] :
     <<u, m>> \in {p \in (DOMAIN rows) \X Movies : rows[p[1]][p[2]] # NaN}}

Catalog(g1, g2, g3, g4) ==
  <<[movieId |-> 1, title |-> "t1", genres |-> g1],
    [movieId |-> 2, title |-> "t2", genres |-> g2],
    [movieId |-> 3, title |-> "t3", genres |-> g3],
    [movieId |-> 4, title |-> "t4", genres |-> g4]>>

\* genre strings: A, C, A|C, Da, C| D
GenreA  == <<"A">>
GenreC  == <<"C">>
GenreAC == <<"A", "|", "C">>
GenreDa == <<"D", "a">>
GenreCD == <<"C", "|", " ", "D">>

\* no filter, or a genre filter
Filters == {<<>>, <<"a">>, <<"C">>}

HashOrder1 == <<1, 2, 3, 4>>
HashOrder2 == <<4, 1, 3, 2>>

StrOrder1 == <<GenreA, GenreC, <<"D">>, GenreDa>>
StrOrder2 == <<GenreDa, <<"D">>, GenreC, GenreA>>

\* catalog, iteration order of sets of movie ids, of sets of genres;
\* the last catalog lacks movie 3
Environments ==
  {<<Catalog(GenreA, GenreC, GenreA, GenreC), HashOrder1, StrOrder1>>,
   <<Catalog(GenreAC, GenreDa, GenreC, GenreDa), HashOrder2, StrOrder2>>,
   <<SubSeq(Catalog(GenreA, GenreAC, GenreCD, GenreCD), 1, 2)
       \o SubSeq(Catalog(GenreA, GenreAC, GenreCD, GenreCD), 4, 4),
     HashOrder2, StrOrder1>>}

r(h) == <<h>>

\* three users with few ratings
SmallRows1 == Rows({r(2)}, {r(4)}, {r(4), NaN}, {NaN})
SmallRows2 == Rows({r(4), r(2)}, {r(2), r(4)}, {r(7), r(2)}, {r(10), NaN})
SmallRows3 == Rows({r(7)}, {r(7)}, {r(2), r(7)}, {r(10), r(7)})

SmallMatrices ==
  {create_user_movie_matrix(Records(<<r1, r2, r3>>)) :
     r1 \in SmallRows1, r2 \in SmallRows2, r3 \in SmallRows3}

\* the worked example with items A, B, C, D as movies 1 to 4: user 1 rated
\* A 5.0 and B 3.0, user 2 A 5.0, B 3.0 and C 4.0, user 3 A 1.0, B 1.0 and
\* C 5.0
ExampleMatrix ==
  create_user_movie_matrix(
    Records(<<<<r(10), r(6), NaN, NaN>>, <<r(10), r(6), r(8), NaN>>,
              <<r(2), r(2), r(10), NaN>>>>))

\* the example and matrices next to it: user 2 without C, user 3 with other
\* ratings of A and B
ExampleMatrices ==
  {create_user_movie_matrix(
     Records(<<<<r(10), r(6), NaN, NaN>>, <<r(10), r(6), c2, NaN>>,
               <<a3, b3, r(10), NaN>>>>)) :
     c2 \in {r(8), NaN}, a3 \in {r(2), r(4)}, b3 \in {r(2), r(6)}}

\* three users, movies 3 and 4 rated by few
BasicRows1 == Rows({r(2)}, {r(4)}, {NaN}, {NaN})
BasicRows2 == Rows({r(2)}, {r(4)}, {r(7), NaN}, {r(7), r(10)})
BasicRows3 == Rows({r(2), NaN}, {r(8)}, {r(7)}, {r(7), NaN})

BasicMatrices ==
  {create_user_movie_matrix(Records(<<r1, r2, r3>>)) :
     r1 \in BasicRows1, r2 \in BasicRows2, r3 \in BasicRows3}

\* users 1 and 2, and NCrowd users 3..NCrowd+2 with the same ratings
CrowdMatrix(r1, r2, rc) ==
  create_user_movie_matrix(
    Records([u \in 1..(NCrowd + 2) |->
               IF u = 1 THEN r1 ELSE IF u = 2 THEN r2 ELSE rc]))

CrowdRows1 == Rows({r(2)}, {r(4), r(2)}, {NaN}, {NaN})
CrowdRows2 == Rows({r(2)}, {r(4)}, {r(7), NaN}, {r(10), NaN})
CrowdRowsC == Rows({r(2)}, {r(2), r(4)}, {NaN}, {r(7)})

CrowdMatrices ==
  {CrowdMatrix(r1, r2, rc) :
     r1 \in CrowdRows1, r2 \in CrowdRows2, rc \in CrowdRowsC}

\* matrices of the genre runs: users 1 and 2 agree, the crowd rated 3 and 4
GenreRows2 == Rows({r(2)}, {r(4)}, {r(7), r(10)}, {r(7), NaN})
GenreRowsC == Rows({r(2)}, {r(2), r(4)}, {r(4)}, {r(7)})

GenreMatrices ==
  {CrowdMatrix(<<r(2), r(4), NaN, NaN>>, r2, rc) :
     r2 \in GenreRows2, rc \in GenreRowsC}

\* two users with liked and disliked movies; the first row holds a movie
\* rated 5.0 and a movie rated 3.0
ProfileRows1 == Rows({r(10)}, {r(6)}, {r(7), NaN}, {NaN})
ProfileRows2 == Rows({r(7), r(8)}, {r(10), r(2)}, {r(9), NaN}, {NaN, r(7)})

ProfileMatrices ==
  {create_user_movie_matrix(Records(<<r1, r2>>)) :
     r1 \in ProfileRows1, r2 \in ProfileRows2}

\* min_rating of a profile, in half-stars: 0.5, 3.5 (the default) and 4.0
LikedFrom == {1, CB_MIN_RATING, CB_MIN_RATING + 1}

\* five movies: the target rates movies 1 and 2, user 2 rates them alike
\* and may rate movies 3 and 4, the crowd rates movies 1 and 2 the other way
\* round and makes movies 4 and 5 popular
HybridRows1 ==
  {<<r(8), r(10), NaN, NaN, NaN>>, <<r(2), r(4), NaN, NaN, NaN>>}

HybridRows2 ==
  {<<r(8), r(10), c, d, NaN>> : c \in {r(7), NaN}, d \in {NaN, r(9)}}

HybridRowC == <<r(10), r(8), NaN, r(8), r(7)>>

HybridRecords(rows) ==
  {[userId |-> u, movieId |-> m, rating |-> rows[u][m][1]] :
     <<u, m>> \in {p \in (DOMAIN rows) \X (1..5) : rows[p[1]][p[2]] # NaN}}

HybridMatrices ==
  {create_user_movie_matrix(
     HybridRecords([u \in 1..(NCrowd + 2) |->
                      IF u = 1 THEN r1 ELSE IF u = 2 THEN r2 ELSE HybridRowC])) :
     r1 \in HybridRows1, r2 \in HybridRows2}

\* catalogs of the five movies with the iteration orders of a run
HybridEnvironments ==
  {<<Catalog(GenreA, GenreC, GenreA, GenreC)
       \o <<[movieId |-> 5, title |-> "t5", genres |-> GenreAC]>>,
     <<1, 2, 3, 4, 5>>, StrOrder1>>,
   <<Catalog(GenreAC, GenreDa, GenreC, GenreDa)
       \o <<[movieId |-> 5, title |-> "t5", genres |-> GenreA]>>,
     <<5, 4, 1, 3, 2>>, StrOrder2>>}

\* a weight given as a decimal with one place: tenths / 10
Weight(tenths) == FDiv(FInt(tenths), FInt(10))

\* cf_weight and cb_weight in tenths: the defaults, CF only, no weight at all,
\* and weights that are not normalized
WeightPairs == {<<7, 3>>, <<10, 0>>, <<0, 0>>, <<2, 2>>}

\* hybrid_method with the weights it is called with
HybridMethods ==
  {<<"switching", <<7, 3>>>>}
    \cup {<<method, w>> : method \in {"mixed", "weighted"}, w \in WeightPairs}

\* the rating records behind a matrix: the ratings file
ratings_of(mx) ==
  {[userId |-> p[1], movieId |-> p[2], rating |-> mx.val[p][1]] :
     p \in {q \in mx.index \X mx.columns : ~isna(mx.val[q])}}

\* three users of different activity; user 1 may have rated movie 3 only
LoaderMatrices ==
  {create_user_movie_matrix(Records(<<r1, r2, r3>>)) :
     r1 \in Rows({r(8)}, {NaN, r(6)}, {NaN}, {NaN})
              \cup {<<NaN, NaN, r(9), NaN>>},
     r2 \in Rows({r(8)}, {r(6)}, {r(4), NaN}, {r(2)}),
     r3 \in Rows({r(2)}, {r(4), NaN}, {NaN}, {NaN, r(10)})}

\* max_users and max_movies of a call
UserCaps == {None, <<1>>, <<2>>, <<3>>}

MovieCaps == {None, <<2>>}

\* the order of users, and of movies, that are as frequent as each other
TieOrders == {<<<<1, 2, 3>>, <<1, 2, 3, 4>>>>, <<<<3, 2, 1>>, <<4, 3, 2, 1>>>>}

\* the keyword arguments of a call of load_data
LoaderKeywords ==
  {[max_users |-> u, max_movies |-> m] : u \in UserCaps, m \in MovieCaps}
    \cup {[max_users |-> u, max_movies |-> m, required_user_id |-> <<q>>] :
            u \in UserCaps, m \in MovieCaps, q \in {1, 3}}

\* the bodies of the requests to POST /api/recommendations
Requests ==
  {[user_id |-> u, top_n |-> n, genre |-> g, cf_weight |-> Weight(w[1]),
    cb_weight |-> Weight(w[2]), hybrid_method |-> h] :
     u \in {1, 3} \cup AbsentUsers, n \in TopNs, g \in {<<>>, GenreC},
     w \in WeightPairs, h \in {"weighted", "mixed", "switching", "average"}}

\* the method names of direct calls: a known one and names that are not
MethodNames == {"weighted", "average", "Mixed"}

\* the users an evaluation is asked for, in the order of the test ratings
EvaluatedUsers == {<<1>>, <<1, 2>>, <<99, 2>>}

\* the movies held out for the test, before the movies a user has a training
\* rating for are taken away
TestMovies == {{3, 4}, {3, 5, 9}}

\* the test movies of a user: a rating is in the training set or in the test
\* set, never in both
test_movies_of(mx, held_out) ==
  [u \in Users \cup AbsentUsers |->
     IF u \in mx.index THEN held_out \ rated_by(mx, u) ELSE held_out]

\* test_ratings['userId'].unique()
test_users_of(mx, users, held_out) ==
  SelectSeq(users, LAMBDA u : test_movies_of(mx, held_out)[u] # {})

\* the catalogs of the evaluation runs; the last one lacks movie 4
EvaluationEnvironments ==
  {e \in HybridEnvironments : e[3] = StrOrder1}
    \cup {<<Catalog(GenreA, GenreC, GenreA, GenreC)
               \o <<[movieId |-> 5, title |-> "t5", genres |-> GenreAC]>>,
             <<5, 4, 1, 3, 2>>, StrOrder1>>,
           <<SubSeq(Catalog(GenreA, GenreC, GenreA, GenreC), 1, 3)
               \o <<[movieId |-> 5, title |-> "t5", genres |-> GenreAC]>>,
             <<1, 2, 3, 4, 5>>, StrOrder1>>}

Matrices ==
  BasicMatrices
    \cup {CrowdMatrix(<<r(2), r(4), NaN, NaN>>, <<r(2), r(4), r(7), NaN>>, rc) :
            rc \in GenreRowsC}

\* the ratings files of the stateful evaluator: three users who rated all
\* four movies
EvaluatorMatrices ==
  {create_user_movie_matrix(Records(<<r1, r2, r3>>)) :
     r1 \in {<<r(8), r(10), r(6), r(4)>>},
     r2 \in {<<r(8), r(9), r(4), r(6)>>, <<r(6), r(10), r(7), r(2)>>},
     r3 \in {<<r(10), r(6), r(8), r(4)>>}}

\* test_ratio and random_seed that the caller sets on the evaluator
EvaluatorSettings == {<<Weight(2), 42>>, <<Weight(2), 43>>, <<FHalf(1), 42>>}

\* the keys of direct calls of _get_similar_users_cached
LookupKeys == {<<1, 2>>, <<2, 2>>, <<1, 3>>}

\* the keys of the concurrent calls
ThreadKeys == {<<1, 2>>, <<1, 3>>}

\* every key a call of the model can ask for
CacheKeys == LookupKeys \cup ThreadKeys \cup {<<u, 2>> : u \in Users}

\* the threads of the process
Threads == {1, 2}

\* the StringIO() that a thread makes on line 183
StringIO(t) == IF t = 1 THEN "StringIO 1" ELSE "StringIO 2"

\* a thread that is not in _get_similar_users_cached
NoFrame ==
  [pc |-> "idle", cache_key |-> <<>>, old_stdout |-> "",
   similar_users |-> <<>>, raised |-> "", value |-> <<>>]

NoHistory ==
  [computed |-> [k \in CacheKeys |-> 0], written |-> [k \in CacheKeys |-> 0]]

\* no call in progress, a new evaluator and no thread in a lookup
Idle ==
  /\ op = "idle"
  /\ args = <<>>
  /\ ret = <<>>
  /\ evaluator = FastRecommenderEvaluator(Weight(2), 2, 42)
  /\ sys_stdout = "stdout"
  /\ frames = [t \in Threads |-> NoFrame]
  /\ history = NoHistory

(***************************************************************************)
(* Calls                                                                   *)
(***************************************************************************)
Call(name, a, result) ==
  /\ op = "idle"
  /\ op' = name
  /\ args' = a
  /\ ret' = result
  /\ UNCHANGED <<matrix, movies, hash_order, str_order, evaluator,
                 sys_stdout, frames, history>>

\* the caller takes the result; the next call can be made
Return ==
  /\ op # "idle"
  /\ op' = "idle"
  /\ args' = <<>>
  /\ ret' = <<>>
  /\ UNCHANGED <<matrix, movies, hash_order, str_order, evaluator,
                 sys_stdout, frames, history>>

CallPearson ==
  \E u1 \in matrix.index \cap Users, u2 \in matrix.index \cap Users :
    Call("pearson_correlation", [user1 |-> u1, user2 |-> u2],
         pearson_correlation(loc(matrix, u1), loc(matrix, u2)))

CallFindSimilar ==
  \E t \in (matrix.index \cap Users) \cup AbsentUsers, mc \in MinCommons :
    Call("find_similar_users", [target |-> t, min_common |-> mc],
         find_similar_users(t, matrix, mc))

\* a prediction for target t is made from t's similarity ranking
CallPredict ==
  \E t \in matrix.index \cap {1, 2}, m \in {4} \cup AbsentMovies,
     k \in TopKs :
    LET similar_users == find_similar_users(t, matrix, 2)
    IN  Call("predict_rating",
             [target |-> t, movie_id |-> m, similar_users |-> similar_users,
              top_k |-> k],
             predict_rating(t, m, matrix, similar_users, k))

CallWhoRated ==
  \E t \in matrix.index \cap {1, 2}, m \in {4} \cup AbsentMovies,
     k \in TopKs :
    LET similar_users == find_similar_users(t, matrix, 2)
    IN  Call("get_similar_users_who_rated",
             [target |-> t, movie_id |-> m, similar_users |-> similar_users,
              top_k |-> k],
             get_similar_users_who_rated(m, matrix, similar_users, k))

CallFallback ==
  \E t \in {1} \cup AbsentUsers, n \in TopNs, g \in Filters,
     mr \in MinRatings :
    Call("get_popular_movies_fallback",
         [target |-> t, top_n |-> n, genre_filter |-> g, min_ratings |-> mr],
         get_popular_movies_fallback(matrix, movies, t, n, g, mr))

CallCF ==
  \E t \in {1, 3} \cup AbsentUsers, n \in TopNs, k \in TopKs, g \in Filters :
    Call("generate_recommendations",
         [target |-> t, top_n |-> n, min_common |-> 2, top_k |-> k,
          genre_filter |-> g],
         generate_recommendations(t, matrix, movies, hash_order, n, 2, k, g))

CallCB ==
  \E t \in {1, 2} \cup AbsentUsers, n \in TopNs, g \in Filters :
    Call("content_based_recommendations",
         [target |-> t, top_n |-> n, min_rating |-> CB_MIN_RATING,
          genre_filter |-> g],
         content_based_recommendations(t, matrix, movies, hash_order,
                                       str_order, n, CB_MIN_RATING, g))

\* the genre profile of a user of the matrix
CallProfile ==
  \E u \in matrix.index \cap Users, mr \in LikedFrom :
    Call("build_user_genre_profile", [user |-> u, min_rating |-> mr],
         build_user_genre_profile(loc(matrix, u), movies, mr))

\* a hybrid call; the weights as normalized by lines 49-53 are kept
CallHybrid ==
  \E t \in {1} \cup AbsentUsers, n \in TopNs, g \in Filters,
     h \in HybridMethods :
    Call("hybrid_recommendations",
         [target |-> t, top_n |-> n, cf_weight |-> Weight(h[2][1]),
          cb_weight |-> Weight(h[2][2]), min_common |-> 2,
          top_k |-> MaxTopK, genre_filter |-> g, method |-> h[1],
          weights |-> normalize_weights(Weight(h[2][1]), Weight(h[2][2]))],
         hybrid_recommendations(t, matrix, movies, hash_order, str_order, n,
                                Weight(h[2][1]), Weight(h[2][2]), 2, MaxTopK,
                                g, h[1]))

CallLoadData ==
  \E kwargs \in LoaderKeywords, ties \in TieOrders :
    Call("load_data", [kwargs |-> kwargs, ties |-> ties],
         call_load_data(ratings_of(matrix), movies, kwargs, ties[1], ties[2]))

CallGetRecommendations ==
  \E t \in {1, 3} \cup AbsentUsers, u \in UserCaps, m \in MovieCaps,
     ties \in TieOrders :
    Call("get_recommendations",
         [user_id |-> t, top_n |-> MaxTopN, max_users |-> u,
          max_movies |-> m, ties |-> ties],
         get_recommendations(t, MaxTopN, <<>>, ratings_of(matrix), movies, u,
                             m, ties[1], ties[2], hash_order))

CallRecommendations ==
  \E data \in Requests, ties \in TieOrders :
    Call("recommendations", [data |-> data, ties |-> ties],
         api_recommendations(data, ratings_of(matrix), movies, ties[1],
                             ties[2], hash_order))

CallHybridMethod ==
  \E t \in {1, 3}, n \in TopNs, g \in {<<>>, GenreC}, w \in WeightPairs,
     h \in MethodNames :
    Call("hybrid_method",
         [target |-> t, top_n |-> n, cf_weight |-> Weight(w[1]),
          cb_weight |-> Weight(w[2]), genre_filter |-> g, method |-> h],
         call_hybrid_recommendations(t, matrix, movies, hash_order,
                                     str_order, n, Weight(w[1]),
                                     Weight(w[2]), MaxTopK, g, h))

\* a call on the evaluator by its one caller: the evaluator it leaves and
\* the keys it computed and stored
Invoke(name, a, result, ev, computed) ==
  /\ op = "idle"
  /\ \A t \in Threads : frames[t].pc = "idle"
  /\ op' = name
  /\ args' = a
  /\ ret' = result
  /\ evaluator' = ev
  /\ history' =
       [computed |-> [k \in CacheKeys |->
                        history.computed[k] + IF k \in computed THEN 1 ELSE 0],
        written |-> [k \in CacheKeys |->
                       history.written[k] + IF k \in computed THEN 1 ELSE 0]]
  /\ UNCHANGED <<matrix, movies, hash_order, str_order, sys_stdout, frames>>

\* the lookup of a key as one call, got being what it left
InvokeLookup(key, got) ==
  Invoke("get_similar_users_cached",
         [cache_key |-> key,
          hit |-> key \in DOMAIN evaluator.similarity_cache],
         [raised |-> got.raised, value |-> got.value],
         [evaluator EXCEPT !.similarity_cache = got.similarity_cache],
         got.computed)

\* a call of _get_similar_users_cached that runs from line 177 to its end
CallGetSimilarCached ==
  \E key \in LookupKeys :
    InvokeLookup(key,
                 get_similar_users_cached(evaluator.similarity_cache,
                                          evaluator.train_matrix, key[1],
                                          key[2]))

CallSplitData ==
  Invoke("split_data", <<>>, split_data(evaluator, ratings_of(matrix)),
         after_split_data(evaluator, ratings_of(matrix)), {})

\* evaluate as one call, done being what it left
InvokeEvaluate(done) ==
  Invoke("evaluator_evaluate", [min_common |-> 2], done.results,
         done.evaluator, done.computed)

CallEvaluatorEvaluate ==
  InvokeEvaluate(evaluator_evaluate(evaluator, ratings_of(matrix), movies,
                                    hash_order, MaxTopN, 2, MaxTopK))

\* the caller sets test_ratio and random_seed of the evaluator
Configure ==
  /\ op = "idle"
  /\ \E c \in EvaluatorSettings :
       /\ <<evaluator.test_ratio, evaluator.random_seed>> # c
       /\ evaluator' = [evaluator EXCEPT !.test_ratio = c[1],
                                         !.random_seed = c[2]]
  /\ UNCHANGED <<matrix, movies, hash_order, str_order, op, args, ret,
                 sys_stdout, frames, history>>

\* a step of thread t in _get_similar_users_cached
Step(t, frame, ev, out, hist) ==
  /\ op = "idle"
  /\ frames' = [frames EXCEPT ![t] = frame]
  /\ evaluator' = ev
  /\ sys_stdout' = out
  /\ history' = hist
  /\ UNCHANGED <<matrix, movies, hash_order, str_order, op, args, ret>>

\* line 177
Enter(t) ==
  /\ frames[t].pc = "idle"
  /\ \E key \in ThreadKeys :
       Step(t, [NoFrame EXCEPT !.pc = "check", !.cache_key = key],
            evaluator, sys_stdout, history)

\* line 178
Check(t) ==
  /\ frames[t].pc = "check"
  /\ Step(t,
          [frames[t] EXCEPT !.pc =
             IF frames[t].cache_key \in DOMAIN evaluator.similarity_cache
             THEN "return" ELSE "save"],
          evaluator, sys_stdout, history)

\* line 182
SaveStdout(t) ==
  /\ frames[t].pc = "save"
  /\ Step(t, [frames[t] EXCEPT !.pc = "redirect", !.old_stdout = sys_stdout],
          evaluator, sys_stdout, history)

\* line 183
Redirect(t) ==
  /\ frames[t].pc = "redirect"
  /\ Step(t, [frames[t] EXCEPT !.pc = "compute"], evaluator, StringIO(t),
          history)

\* the step of thread t that takes the outcome of find_similar_users
Computed(t, found) ==
  Step(t,
       [frames[t] EXCEPT !.pc = "restore", !.raised = found.raised,
                         !.similar_users = found.value],
       evaluator, sys_stdout,
       IF found.raised # "" THEN history
       ELSE [history EXCEPT !.computed[frames[t].cache_key] = @ + 1])

\* lines 185-187
Compute(t) ==
  /\ frames[t].pc = "compute"
  /\ Computed(t, call_find_similar_users(evaluator.train_matrix,
                                         frames[t].cache_key[1],
                                         frames[t].cache_key[2]))

\* line 189, and the exception of line 185 leaving the method
Restore(t) ==
  /\ frames[t].pc = "restore"
  /\ Step(t,
          [frames[t] EXCEPT !.pc =
             IF frames[t].raised # "" THEN "done" ELSE "store"],
          evaluator, frames[t].old_stdout, history)

\* line 190
Store(t) ==
  /\ frames[t].pc = "store"
  /\ Step(t, [frames[t] EXCEPT !.pc = "return"],
          [evaluator EXCEPT !.similarity_cache =
             cache_set(@, frames[t].cache_key, frames[t].similar_users)],
          sys_stdout,
          [history EXCEPT !.written[frames[t].cache_key] = @ + 1])

\* line 191
ReturnCached(t) ==
  /\ frames[t].pc = "return"
  /\ Step(t,
          [frames[t] EXCEPT !.pc = "done",
                            !.value =
                              evaluator.similarity_cache[frames[t].cache_key]],
          evaluator, sys_stdout, history)

\* the caller of the thread takes what the call returned or raised
Leave(t) ==
  /\ frames[t].pc = "done"
  /\ Step(t, NoFrame, evaluator, sys_stdout, history)

CallEvaluate ==
  \E users \in EvaluatedUsers, held_out \in TestMovies, n \in TopNs :
    Call("evaluate",
         [test_users |-> test_users_of(matrix, users, held_out), top_n |-> n,
          min_common |-> 2, top_k |-> MaxTopK],
         evaluate(test_users_of(matrix, users, held_out), matrix, movies,
                  hash_order, n, 2, MaxTopK))

CallFastEvaluate ==
  \E users \in EvaluatedUsers, held_out \in TestMovies, n \in TopNs :
    Call("fast_evaluate",
         [test_users |-> test_users_of(matrix, users, held_out),
          test_movies |-> test_movies_of(matrix, held_out), top_n |-> n,
          min_common |-> 2, top_k |-> MaxTopK],
         fast_evaluate(test_users_of(matrix, users, held_out),
                       test_movies_of(matrix, held_out), matrix, movies,
                       hash_order, n, 2, MaxTopK))

(***************************************************************************)
(* Specifications                                                          *)
(***************************************************************************)
Environment(catalog, order, sorder) ==
  /\ movies = catalog
  /\ hash_order = order
  /\ str_order = sorder

\* similarity calls on the three-user matrices
InitSim ==
  /\ matrix \in SmallMatrices
  /\ Environment(Catalog(GenreA, GenreC, GenreA, GenreC), HashOrder1,
                 StrOrder1)
  /\ Idle

NextSim == CallPearson \/ CallFindSimilar \/ Return

SpecSim == InitSim /\ [][NextSim]_vars

\* similarity calls on the worked example and the matrices next to it
InitExample ==
  /\ matrix \in ExampleMatrices
  /\ Environment(Catalog(GenreA, GenreC, GenreA, GenreC), HashOrder1,
                 StrOrder1)
  /\ Idle

SpecExample == InitExample /\ [][NextSim]_vars

\* prediction calls on the three-user matrices
NextPredict == CallPredict \/ CallWhoRated \/ Return

SpecPredict == InitSim /\ [][NextPredict]_vars

\* collaborative filtering on matrices with a crowd of raters
InitCrowd ==
  /\ matrix \in CrowdMatrices
  /\ Environment(Catalog(GenreA, GenreC, GenreC, GenreA), HashOrder1,
                 StrOrder1)
  /\ Idle

NextCrowd == CallCF \/ Return

SpecCrowd == InitCrowd /\ [][NextCrowd]_vars

\* collaborative filtering under every catalog
InitGenre ==
  /\ matrix \in GenreMatrices
  /\ \E e \in Environments : Environment(e[1], e[2], e[3])
  /\ Idle

SpecGenre == InitGenre /\ [][NextCrowd]_vars

\* every entry point
Init ==
  /\ matrix \in Matrices
  /\ \E e \in Environments : Environment(e[1], e[2], e[3])
  /\ Idle

\* the catalogs of the content-based calls: one more, with movies sharing
\* one genre or both genres of movie 1
ContentEnvironments ==
  Environments
    \cup {<<Catalog(GenreAC, GenreA, GenreC, GenreAC), HashOrder1, StrOrder2>>}

\* content-based calls on the two-user matrices
InitContent ==
  /\ matrix \in ProfileMatrices
  /\ \E e \in ContentEnvironments : Environment(e[1], e[2], e[3])
  /\ Idle

NextContent == CallProfile \/ CallCB \/ Return

SpecContent == InitContent /\ [][NextContent]_vars

\* hybrid calls on the five-movie matrices
InitHybrid ==
  /\ matrix \in HybridMatrices
  /\ \E e \in HybridEnvironments : Environment(e[1], e[2], e[3])
  /\ Idle

NextHybrid == CallHybrid \/ Return

SpecHybrid == InitHybrid /\ [][NextHybrid]_vars

\* the data loader and the serving path on the ratings of three users
InitServing ==
  /\ matrix \in LoaderMatrices
  /\ Environment(Catalog(GenreA, GenreC, GenreA, GenreC), HashOrder1,
                 StrOrder1)
  /\ Idle

NextServing ==
  CallLoadData \/ CallGetRecommendations \/ CallRecommendations \/ Return

SpecServing == InitServing /\ [][NextServing]_vars

\* method names at hybrid_recommendations and at the endpoint
NextMethod == CallHybridMethod \/ CallRecommendations \/ Return

SpecMethod == InitServing /\ [][NextMethod]_vars

\* an evaluator used by one caller
InitEvaluator ==
  /\ matrix \in EvaluatorMatrices
  /\ Environment(Catalog(GenreA, GenreC, GenreA, GenreC), HashOrder1,
                 StrOrder1)
  /\ Idle

NextCache ==
  \/ CallGetSimilarCached
  \/ CallSplitData
  \/ CallEvaluatorEvaluate
  \/ Configure
  \/ Return

SpecCache == InitEvaluator /\ [][NextCache]_vars

\* threads that look similar users up on one evaluator
NextThreads ==
  \/ CallEvaluatorEvaluate
  \/ Return
  \/ \E t \in Threads :
       \/ Enter(t)
       \/ Check(t)
       \/ SaveStdout(t)
       \/ Redirect(t)
       \/ Compute(t)
       \/ Restore(t)
       \/ Store(t)
       \/ ReturnCached(t)
       \/ Leave(t)

SpecThreads == InitEvaluator /\ [][NextThreads]_vars

\* evaluation runs on the five-movie matrices
InitEvaluation ==
  /\ matrix \in HybridMatrices
  /\ \E e \in EvaluationEnvironments : Environment(e[1], e[2], e[3])
  /\ Idle

NextEvaluation == CallEvaluate \/ CallFastEvaluate \/ Return

SpecEvaluation == InitEvaluation /\ [][NextEvaluation]_vars

\* the fallback called directly
NextFallback == CallFallback \/ Return

SpecFallback == Init /\ [][NextFallback]_vars

Next ==
  \/ CallPearson
  \/ CallFindSimilar
  \/ CallPredict
  \/ CallWhoRated
  \/ CallFallback
  \/ CallCF
  \/ CallCB
  \/ Return

Spec == Init /\ [][Next]_vars

(***************************************************************************)
(* Properties of generate_recommendations                                  *)
(***************************************************************************)
\* generate_recommendations has returned, called for a user of the matrix
CFDone == op = "generate_recommendations" /\ args.target \in matrix.index

\* the scores of a returned list
Scores(recommendations) == [i \in 1..Len(recommendations) |-> recommendations[i][3]]

\* C1: for a target user of the matrix and top_n >= 1, the list that
\* generate_recommendations returns, from prediction or from the cold-start
\* fallback, has at most top_n entries and holds no movie the target user
\* has rated in the matrix.
C1_AtMostTopNAndUnrated ==
  CFDone =>
    /\ Len(ret[1]) <= args.top_n
    /\ \A i \in 1..Len(ret[1]) :
         isna(matrix.val[<<args.target, ret[1][i][1]>>])

\* a fallback list cut to top_n entries, for a target who has rated a movie
\* that has enough ratings to be popular
C1_Witness ==
  /\ CFDone
  /\ ret[2]
  /\ Len(ret[1]) = args.top_n
  /\ \E m \in rated_by(matrix, args.target) :
       Len(movie_ratings(matrix, m)) >= CF_MIN_RATINGS

\* C2 as stated: the list generate_recommendations returns is strictly
\* descending by score, no two adjacent entries have equal scores.
C2_StrictlyDescending ==
  CFDone =>
    \A i \in 1..(Len(ret[1]) - 1) :
      FLt(Scores(ret[1])[i + 1], Scores(ret[1])[i])

\* C2 amended: the list generate_recommendations returns is descending by
\* score, an entry's score is never smaller than the next entry's; adjacent
\* entries can have equal scores.
C2_Descending ==
  CFDone =>
    \A i \in 1..(Len(ret[1]) - 1) :
      FLe(Scores(ret[1])[i + 1], Scores(ret[1])[i])

\* a predicted list of two entries with different scores, in the other order
\* than the one the movies were scored in
C2_Witness ==
  /\ CFDone
  /\ ~ret[2]
  /\ Len(ret[1]) = 2
  /\ FLt(Scores(ret[1])[2], Scores(ret[1])[1])
  /\ set_iter({ret[1][1][1], ret[1][2][1]}, hash_order)
       = <<ret[1][2][1], ret[1][1][1]>>

\* the similarity list and the scored, filtered candidates of the call
CFSimilar == find_similar_users(args.target, matrix, args.min_common)

CFCandidates(similar_users) ==
  cf_predictions(args.target, matrix, movies, hash_order, similar_users,
                 args.top_k, args.genre_filter)

\* the claim's condition for the fallback
CFCold(similar_users) ==
  Len(similar_users) = 0 \/ Len(CFCandidates(similar_users)) = 0

\* what the claim says of the result, cold or not
CFColdResult(cold) ==
  /\ ret[2] = cold
  /\ cold =>
       ret[1] = get_popular_movies_fallback(matrix, movies, args.target,
                                            args.top_n, args.genre_filter,
                                            10)
  /\ ~cold => Len(ret[1]) > 0

\* C3: for a target user of the matrix, generate_recommendations delegates
\* to the cold-start fallback exactly when the similarity list is empty or
\* the scored and filtered candidate list is empty; then is_cold_start is
\* true and the list is get_popular_movies_fallback(matrix, movies, target,
\* top_n, genre_filter, min_ratings = 10); otherwise is_cold_start is false
\* and the list is not empty.
C3_ColdStartExactly == CFDone => CFColdResult(CFCold(CFSimilar))

\* similar users exist but none of the first top_k rated a candidate; the
\* fallback supplies a list
C3_Witness ==
  /\ CFDone
  /\ ret[2]
  /\ Len(ret[1]) > 0
  /\ Len(CFSimilar) > 0

(***************************************************************************)
(* Properties of find_similar_users                                        *)
(***************************************************************************)
FindDone == op = "find_similar_users" /\ args.target \in matrix.index

\* the movies both users rated
Shared(u1, u2) ==
  dropna_index(loc(matrix, u1)) \cap dropna_index(loc(matrix, u2))

\* the users the claim puts in the list
Similar(target, min_common) ==
  {u \in matrix.index \ {target} :
     /\ Cardinality(Shared(target, u)) >= min_common
     /\ FLt(FZero, pearson_correlation(loc(matrix, target), loc(matrix, u)))}

\* C4: find_similar_users(target, matrix, min_common) returns exactly the
\* users other than the target that share at least min_common rated movies
\* with the target and whose Pearson correlation with the target is greater
\* than 0, each once and paired with that correlation, ordered by
\* correlation descending.
C4_ExactlyThePositivelyCorrelated ==
  FindDone =>
    /\ {ret[i][1] : i \in 1..Len(ret)} = Similar(args.target, args.min_common)
    /\ Len(ret) = Cardinality(Similar(args.target, args.min_common))
    /\ \A i \in 1..Len(ret) :
         ret[i][2] = pearson_correlation(loc(matrix, args.target),
                                         loc(matrix, ret[i][1]))
    /\ \A i \in 1..(Len(ret) - 1) : FLe(ret[i + 1][2], ret[i][2])

\* two users are returned, the later row of the matrix first because its
\* correlation is the greater one
C4_Witness ==
  /\ FindDone
  /\ Len(ret) = 2
  /\ ret[1][1] > ret[2][1]
  /\ FLt(ret[2][2], ret[1][2])

(***************************************************************************)
(* Properties of predict_rating                                            *)
(***************************************************************************)
PredictDone == op = "predict_rating"

\* the entries among the first top_k of the ranking that rated the movie
Contributors ==
  SelectSeq(Take(args.similar_users, args.top_k),
            LAMBDA p : ~isna(matrix.val[<<p[1], args.movie_id>>]))

Rating(user_id) == FHalf(matrix.val[<<user_id, args.movie_id>>][1])

\* C5: predict_rating looks at the first top_k entries of the ranking only,
\* and returns sum(sim * rating) / sum(|sim|) over those of them that rated
\* the movie; it returns 0 when none of them rated it or when the movie is
\* not a column of the matrix, whoever rated it further down the ranking.
C5_FirstTopKByRank ==
  PredictDone =>
    ret = IF args.movie_id \notin matrix.columns THEN FZero
          ELSE IF Len(Contributors) = 0 THEN FZero
          ELSE FDiv(FSum([i \in 1..Len(Contributors) |->
                            FMul(Contributors[i][2],
                                 Rating(Contributors[i][1]))]),
                    FSum([i \in 1..Len(Contributors) |->
                            FAbs(Contributors[i][2])]))

\* the prediction is 0 although a user ranked below top_k rated the movie
C5_Witness ==
  /\ PredictDone
  /\ args.movie_id \in matrix.columns
  /\ ret = FZero
  /\ \E i \in (args.top_k + 1)..Len(args.similar_users) :
       ~isna(matrix.val[<<args.similar_users[i][1], args.movie_id>>])

\* C6: with the ratings of the matrix in [0.5, 5.0] and the ranking made by
\* find_similar_users on that matrix, the value predict_rating returns is 0
\* or lies in [0.5, 5.0].
C6_ZeroOrInRange ==
  PredictDone =>
    \/ ret = FZero
    \/ FLe(FHalf(1), ret) /\ FLe(ret, FInt(5))

(***************************************************************************)
(* Properties for users that are not in the matrix                         *)
(***************************************************************************)
AbsentDone(name) == op = name /\ args.target \notin matrix.index

\* C7: for a target user without a row in the matrix, find_similar_users
\* returns the empty list, content_based_recommendations returns the empty
\* list, and generate_recommendations returns the empty list with
\* is_cold_start false, not the fallback's list.
C7_AbsentUserEmptySignal ==
  /\ AbsentDone("find_similar_users") => ret = <<>>
  /\ AbsentDone("content_based_recommendations") => ret = <<>>
  /\ AbsentDone("generate_recommendations") => ret = <<<<>>, FALSE>>

\* generate_recommendations returned the empty signal for an unknown user
\* for whom the fallback has movies to offer
C7_Witness ==
  /\ AbsentDone("generate_recommendations")
  /\ ret = <<<<>>, FALSE>>
  /\ Len(get_popular_movies_fallback(matrix, movies, args.target,
                                     args.top_n, args.genre_filter,
                                     CF_MIN_RATINGS)) > 0

(***************************************************************************)
(* Properties of pearson_correlation                                       *)
(***************************************************************************)
PearsonDone == op = "pearson_correlation"

\* all of the user's ratings of the shared movies are the same
ZeroVariance(u, shared) ==
  \A c1 \in shared, c2 \in shared : matrix.val[<<u, c1>>] = matrix.val[<<u, c2>>]

\* C8: pearson_correlation of two users' rows returns a value in [-1, 1],
\* and returns 0 when the users share fewer than 2 rated movies or when one
\* user's ratings of the shared movies have zero variance.
C8_WithinMinusOneAndOne ==
  PearsonDone =>
    /\ FLe(FNeg(FOne), ret) /\ FLe(ret, FOne)
    /\ (\/ Cardinality(Shared(args.user1, args.user2)) < 2
        \/ ZeroVariance(args.user1, Shared(args.user1, args.user2))
        \/ ZeroVariance(args.user2, Shared(args.user1, args.user2)))
         => ret = FZero

(***************************************************************************)
(* Properties of the genre filter                                          *)
(***************************************************************************)
\* the genre string contains the filter, letter case aside
Matches(genre_filter, movie_genres) ==
  contains(lower(genre_filter), lower(movie_genres))

\* the scored ranking of the call made without a genre filter, not cut
CFUnfiltered(similar_users) ==
  sort_by_score(cf_predictions(args.target, matrix, movies, hash_order,
                               similar_users, args.top_k, <<>>))

CFMatching(similar_users) ==
  SelectSeq(CFUnfiltered(similar_users),
            LAMBDA p : Matches(args.genre_filter, p[4]))

\* the result is the first top_n of the matching entries, if there are any
CFTrimmed(similar_users, matching) ==
  (Len(similar_users) > 0 /\ Len(matching) > 0) =>
    ret = <<Take(matching, args.top_n), FALSE>>

\* C9: for a user of the matrix with similar users, the result of
\* generate_recommendations with genre filter g is the first top_n entries
\* of the entries of the unfiltered, uncut scored ranking whose genre string
\* contains g, letter case aside, when there is such an entry; and every
\* returned entry's genre string contains g, letter case aside, also when
\* the list is the fallback's.
C9_GenreFilterOnlyTrims ==
  (CFDone /\ args.genre_filter # <<>>) =>
    /\ CFTrimmed(CFSimilar, CFMatching(CFSimilar))
    /\ \A i \in 1..Len(ret[1]) : Matches(args.genre_filter, ret[1][i][4])

\* the filter removed the best scored movie, and the first returned movie
\* matches the filter only when letter case is ignored
C9_Witness ==
  /\ CFDone
  /\ args.genre_filter # <<>>
  /\ ~ret[2]
  /\ Len(ret[1]) > 0
  /\ CFUnfiltered(CFSimilar)[1][1] # ret[1][1][1]
  /\ ~contains(args.genre_filter, ret[1][1][4])

(***************************************************************************)
(* Properties of get_popular_movies_fallback                               *)
(***************************************************************************)
FallbackDone == op = "get_popular_movies_fallback"

Raters(c) == {u \in matrix.index : ~isna(matrix.val[<<u, c>>])}

RECURSIVE HalfStars(_, _)
\* the ratings of movie c by the users S, added up in half-stars
HalfStars(S, c) ==
  IF S = {} THEN 0
  ELSE LET u == CHOOSE v \in S : TRUE
       IN  matrix.val[<<u, c>>][1] + HalfStars(S \ {u}, c)

MeanRating(c) ==
  FDiv(FHalf(HalfStars(Raters(c), c)), FInt(Cardinality(Raters(c))))

InCatalog(c) == \E i \in 1..Len(movies) : movies[i].movieId = c

CatalogEntry(c) == movies[CHOOSE i \in 1..Len(movies) : movies[i].movieId = c]

\* the movies the claim lets the fallback return
Eligible ==
  {c \in matrix.columns :
     /\ InCatalog(c)
     /\ Cardinality(Raters(c)) >= args.min_ratings
     /\ args.target \notin Raters(c)
     /\ args.genre_filter # <<>> =>
          Matches(args.genre_filter, CatalogEntry(c).genres)}

\* movie c1 comes before movie c2: greater mean, or equal mean and more ratings
Before(c1, c2) ==
  \/ FLt(MeanRating(c2), MeanRating(c1))
  \/ /\ MeanRating(c1) = MeanRating(c2)
     /\ Cardinality(Raters(c1)) > Cardinality(Raters(c2))

\* C10: get_popular_movies_fallback returns the first top_n of the movies
\* of the catalog that have at least min_ratings ratings in the matrix, are
\* not rated by the target user and match the genre filter if there is one,
\* ordered by mean rating descending and, for equal means, by number of
\* ratings descending; each entry carries the movie's title and genres,
\* its mean rating as score and an empty contributor list.
C10_FirstTopNOfEligible ==
  FallbackDone =>
    /\ Len(ret) = Min({args.top_n, Cardinality(Eligible)})
    /\ \A i \in 1..Len(ret) :
         /\ ret[i][1] \in Eligible
         /\ ret[i] = <<ret[i][1], CatalogEntry(ret[i][1]).title,
                       MeanRating(ret[i][1]), CatalogEntry(ret[i][1]).genres,
                       <<>>>>
    /\ \A i \in 1..Len(ret), j \in 1..Len(ret) :
         i < j => ret[i][1] # ret[j][1] /\ ~Before(ret[j][1], ret[i][1])
    /\ \A c \in Eligible \ {ret[i][1] : i \in 1..Len(ret)} :
         \A i \in 1..Len(ret) : ~Before(c, ret[i][1])

\* two movies of equal mean rating are returned, the one with more ratings
\* first although it is the later column of the matrix
C10_Witness ==
  /\ FallbackDone
  /\ Len(ret) = 2
  /\ ret[1][3] = ret[2][3]
  /\ Cardinality(Raters(ret[1][1])) > Cardinality(Raters(ret[2][1]))
  /\ ret[1][1] > ret[2][1]

(***************************************************************************)
(* Properties of build_user_genre_profile                                  *)
(***************************************************************************)
ProfileDone == op = "build_user_genre_profile"

\* the movies the user rated min_rating or higher
Qualifying ==
  {c \in matrix.columns :
     /\ ~isna(matrix.val[<<args.user, c>>])
     /\ matrix.val[<<args.user, c>>][1] >= args.min_rating}

\* the genres the catalog gives a movie
GenresOf(c) ==
  IF InCatalog(c) THEN parse_genres(CatalogEntry(c).genres) ELSE {}

\* twice (rating - min_rating + 1): the weight of a movie in half units
HalfWeight(c) == matrix.val[<<args.user, c>>][1] - args.min_rating + 2

RECURSIVE HalfWeights(_)
HalfWeights(S) ==
  IF S = {} THEN 0
  ELSE LET c == CHOOSE v \in S : TRUE
       IN  HalfWeight(c) + HalfWeights(S \ {c})

\* the weights of the qualifying movies that carry genre g, added up
GenreHalfWeights(g) == HalfWeights({c \in Qualifying : g \in GenresOf(c)})

RECURSIVE ContributionHalfWeights(_)
\* the weights over all (genre, movie) contributions of the movies S
ContributionHalfWeights(S) ==
  IF S = {} THEN 0
  ELSE LET c == CHOOSE v \in S : TRUE
       IN  HalfWeight(c) * Cardinality(GenresOf(c))
             + ContributionHalfWeights(S \ {c})

\* k with every value of the profile a whole multiple of 2^-k, k > Prec
SharesShift(profile) ==
  Max0((0 - Min({profile[g].e : g \in DOMAIN profile} \cup {0})) - (Prec + 1))
    + (Prec + 1)

RECURSIVE SharesSum(_, _, _)
\* the exact sum of the profile's values over the genres S, times 2^k
SharesSum(profile, S, k) ==
  IF S = {} THEN 0
  ELSE LET g == CHOOSE v \in S : TRUE
       IN  profile[g].m * (2 ^ (profile[g].e + k))
             + SharesSum(profile, S \ {g}, k)

\* the profile is made of the qualifying movies only, each weighing
\* rating - min_rating + 1, and gives each genre its share of the weights
ProfileShares(profile) ==
  /\ DOMAIN profile = UNION {GenresOf(c) : c \in Qualifying}
  /\ \A g \in DOMAIN profile :
       profile[g] = FDiv(FInt(GenreHalfWeights(g)),
                         FInt(ContributionHalfWeights(Qualifying)))

\* C11 as stated: build_user_genre_profile uses the movies rated min_rating
\* or higher only, weighs each by rating - min_rating + 1 and returns each
\* genre's share of the weights, and the weights of a non-empty profile sum
\* to 1.
C11_SharesSumToOne ==
  ProfileDone =>
    /\ ProfileShares(ret)
    /\ DOMAIN ret # {} =>
         SharesSum(ret, DOMAIN ret, SharesShift(ret)) = 2 ^ SharesShift(ret)

\* C11 amended: build_user_genre_profile uses the movies rated min_rating
\* or higher only, weighs each by rating - min_rating + 1 and returns each
\* genre's share of the weights as a rounded quotient, so that the weights
\* of a non-empty profile sum to 1 up to the rounding of the divisions: the
\* sum differs from 1 by at most half a unit in the last place per genre.
C11_SharesSumToOneRounded ==
  ProfileDone =>
    /\ ProfileShares(ret)
    /\ DOMAIN ret # {} =>
         Abs(SharesSum(ret, DOMAIN ret, SharesShift(ret))
               - 2 ^ SharesShift(ret))
           <= Cardinality(DOMAIN ret) * (2 ^ (SharesShift(ret) - Prec - 1))

\* a profile of two genres or more, made by a user who also rated a movie
\* of the catalog below min_rating and one exactly min_rating
C11_Witness ==
  /\ ProfileDone
  /\ Cardinality(DOMAIN ret) >= 2
  /\ \E c \in matrix.columns \ Qualifying :
       ~isna(matrix.val[<<args.user, c>>]) /\ GenresOf(c) # {}
  /\ \E c \in Qualifying :
       matrix.val[<<args.user, c>>][1] = args.min_rating /\ GenresOf(c) # {}

(***************************************************************************)
(* Properties of content_based_recommendations                             *)
(***************************************************************************)
CBDone == op = "content_based_recommendations" /\ args.target \in matrix.index

\* the genre profile of the target user of the call
CBProfile ==
  build_user_genre_profile(loc(matrix, args.target), movies, args.min_rating)

\* what the claim says of a returned list, given the user's profile
CBResult(profile) ==
  IF DOMAIN profile = {} THEN ret = <<>>
  ELSE
    /\ Len(ret) <= args.top_n
    /\ \A i \in 1..Len(ret) :
         /\ isna(matrix.val[<<args.target, ret[i][1]>>])
         /\ args.genre_filter # <<>> => Matches(args.genre_filter, ret[i][4])
         /\ ret[i][3] = calculate_content_similarity(parse_genres(ret[i][4]),
                                                     profile, str_order)
         /\ FLt(FZero, ret[i][3])
         /\ parse_genres(ret[i][4]) \cap DOMAIN profile # {}
    /\ \A i \in 1..(Len(ret) - 1) : FLe(ret[i + 1][3], ret[i][3])

HybridDone == op = "hybrid_recommendations"

\* the product of two floats, not rounded
ExactMul(x, y) == Canon(x.m * y.m, x.e + y.e)

\* the effective weights are in the ratio of the supplied weights
RatioKept == ExactMul(args.weights[1], args.cb_weight) = ExactMul(args.weights[2], args.cf_weight)

\* C13 as stated: whatever cf_weight and cb_weight hybrid_recommendations
\* is called with, the weights it combines scores with sum to 1 and are in
\* the ratio of the supplied weights.
C13_WeightsSumToOne ==
  HybridDone =>
    /\ SharesSum(args.weights, {1, 2}, SharesShift(args.weights))
         = 2 ^ SharesShift(args.weights)
    /\ RatioKept

\* C13 amended: when cf_weight + cb_weight > 0, the weights
\* hybrid_recommendations combines scores with are the supplied weights
\* divided by their sum, so that they sum to 1 up to the rounding of the sum
\* and of the two divisions; when cf_weight + cb_weight is not positive the weights are
\* used as supplied.
C13_WeightsNormalizedWhenPositive ==
  HybridDone =>
    IF FLt(FZero, FAdd(args.cf_weight, args.cb_weight))
    THEN /\ args.weights[1]
              = FDiv(args.cf_weight, FAdd(args.cf_weight, args.cb_weight))
         /\ args.weights[2]
              = FDiv(args.cb_weight, FAdd(args.cf_weight, args.cb_weight))
         /\ Abs(SharesSum(args.weights, {1, 2}, SharesShift(args.weights))
                  - 2 ^ SharesShift(args.weights))
              <= 4 * (2 ^ (SharesShift(args.weights) - Prec - 1))
    ELSE args.weights = <<args.cf_weight, args.cb_weight>>

\* weights 0.2 and 0.2 are supplied and 0.5 and 0.5 are used
C13_Witness ==
  /\ HybridDone
  /\ args.cf_weight = Weight(2)
  /\ args.cb_weight = Weight(2)
  /\ args.weights = <<FHalf(1), FHalf(1)>>

\* the CF call and the content-based call of the finished hybrid call, for a
\* length and a genre filter
HybridCF(top_n, genre_filter) ==
  generate_recommendations(args.target, matrix, movies, hash_order, top_n,
                           args.min_common, args.top_k, genre_filter)

HybridCB(top_n, genre_filter) ==
  content_based_recommendations(args.target, matrix, movies, hash_order,
                                str_order, top_n, CB_MIN_RATING, genre_filter)

SwitchingDone == HybridDone /\ args.method = "switching"

\* the content-based list as 'switching' hands it out
ScaledContentList(cb_recs, list) ==
  /\ Len(list) = Len(cb_recs)
  /\ \A i \in 1..Len(cb_recs) :
       list[i] = <<cb_recs[i][1], cb_recs[i][2], FMul(cb_recs[i][3], FInt(5)),
                   cb_recs[i][4], <<>>>>

\* the three outcomes of 'switching'
SwitchingOutcome(cf, cb_recs) ==
  /\ (~cf[2] /\ cf[1] # <<>>) => ret = <<cf[1], FALSE>>
  /\ (~(~cf[2] /\ cf[1] # <<>>) /\ cb_recs # <<>>) =>
       ret[2] /\ ScaledContentList(cb_recs, ret[1])
  /\ (~(~cf[2] /\ cf[1] # <<>>) /\ cb_recs = <<>>) => ret = <<<<>>, TRUE>>
  /\ (cf[2] /\ cf[1] # <<>>) => ret[1] # cf[1]

\* C14: 'switching' returns the CF list unchanged with is_cold_start false
\* when CF did not fall back and its list is non-empty; otherwise the
\* content-based list with scores times 5 and no contributors, with
\* is_cold_start true, when that list is non-empty; otherwise the empty list
\* with is_cold_start true.  The popular-movies list of CF is never returned.
C14_SwitchingOutcomes ==
  SwitchingDone =>
    SwitchingOutcome(HybridCF(args.top_n, args.genre_filter),
                     HybridCB(args.top_n, args.genre_filter))

\* CF fell back to a non-empty popular-movies list and the content-based
\* list was returned
C14_Witness ==
  /\ SwitchingDone
  /\ ret[2]
  /\ ret[1] # <<>>
  /\ HybridCF(args.top_n, args.genre_filter)[2]
  /\ HybridCF(args.top_n, args.genre_filter)[1] # <<>>

\* the CF list was returned
C14_CFListReturned == SwitchingDone /\ ~ret[2] /\ ret[1] # <<>>

\* nothing was returned although CF fell back to a non-empty list
C14_NothingReturned ==
  /\ SwitchingDone
  /\ ret = <<<<>>, TRUE>>
  /\ HybridCF(args.top_n, args.genre_filter)[1] # <<>>

MixedDone == HybridDone /\ args.method = "mixed"

IdsOf(recs) == {recs[i][1] : i \in 1..Len(recs)}

EntryOf(recs, id) == recs[CHOOSE i \in 1..Len(recs) : recs[i][1] = id]

\* cfScore * cfWeight + (5 * cbSimilarity) * cbWeight, a side that did not
\* produce the item contributing 0
MergedScore(cf_recs, cb_recs, id) ==
  FAdd(FMul(IF id \in IdsOf(cf_recs) THEN EntryOf(cf_recs, id)[3] ELSE FZero,
            args.weights[1]),
       FMul(IF id \in IdsOf(cb_recs)
            THEN FMul(FInt(5), EntryOf(cb_recs, id)[3]) ELSE FZero,
            args.weights[2]))

\* genre and contributors from CF when CF produced the item, from the
\* content-based list (which has no contributors) otherwise
MergedGenres(cf_recs, cb_recs, id) ==
  IF id \in IdsOf(cf_recs) THEN EntryOf(cf_recs, id)[4]
  ELSE EntryOf(cb_recs, id)[4]

MergedContributors(cf_recs, id) ==
  IF id \in IdsOf(cf_recs) THEN EntryOf(cf_recs, id)[5] ELSE <<>>

\* list holds the top_n best of the items ids, one entry each, merged from
\* the two lists and in descending order of the merged score
MergedList(list, cf_recs, cb_recs, ids, top_n) ==
  /\ Len(list) = Min({top_n, Cardinality(ids)})
  /\ \A i \in 1..Len(list) :
       /\ list[i][1] \in ids
       /\ list[i][3] = MergedScore(cf_recs, cb_recs, list[i][1])
       /\ list[i][4] = MergedGenres(cf_recs, cb_recs, list[i][1])
       /\ list[i][5] = MergedContributors(cf_recs, list[i][1])
  /\ \A i, j \in 1..Len(list) :
       i < j => list[i][1] # list[j][1] /\ FLe(list[j][3], list[i][3])
  /\ \A id \in ids \ IdsOf(list) : \A i \in 1..Len(list) :
       FLe(MergedScore(cf_recs, cb_recs, id), list[i][3])

\* the items of the two lists whose merged score is positive
PositiveIds(cf_recs, cb_recs) ==
  {id \in IdsOf(cf_recs) \cup IdsOf(cb_recs) :
     FLt(FZero, MergedScore(cf_recs, cb_recs, id))}

MixedUnion(cf, cb_recs) ==
  /\ MergedList(ret[1], cf[1], cb_recs, IdsOf(cf[1]) \cup IdsOf(cb_recs),
                args.top_n)
  /\ ret[2] = (cf[2] /\ cb_recs = <<>>)

MixedPositive(cf, cb_recs) ==
  /\ MergedList(ret[1], cf[1], cb_recs, PositiveIds(cf[1], cb_recs),
                args.top_n)
  /\ ret[2] = (cf[2] /\ cb_recs = <<>>)

\* C15 as stated: 'mixed' returns one entry for every item of the union of
\* the CF list and the content-based list (both for top_n and the genre
\* filter), scored cfScore * cfWeight + (5 * cbSimilarity) * cbWeight, with
\* genre and contributors from CF when CF produced the item, sorted by
\* descending score and cut to top_n; is_cold_start is true exactly when CF
\* fell back and the content-based list is empty.
C15_MixedUnionOfBoth ==
  MixedDone =>
    MixedUnion(HybridCF(args.top_n, args.genre_filter),
               HybridCB(args.top_n, args.genre_filter))

\* C15 amended: as stated, for the items of the union whose combined score
\* is positive; an item whose combined score is 0 is left out.
C15_MixedPositiveOfBoth ==
  MixedDone =>
    MixedPositive(HybridCF(args.top_n, args.genre_filter),
                  HybridCB(args.top_n, args.genre_filter))

\* a 'mixed' list with an item only the content-based list produced and an
\* item with CF contributors
C15_Witness ==
  /\ MixedDone
  /\ \E i, j \in 1..Len(ret[1]) :
       /\ ret[1][i][5] # <<>>
       /\ ret[1][j][1] \notin IdsOf(HybridCF(args.top_n, args.genre_filter)[1])

\* the catalog row of a movie
CatalogEntryOf(id) == movies[CHOOSE i \in 1..Len(movies) : movies[i].movieId = id]

WeightedDone == HybridDone /\ args.method = "weighted"

\* the items of the two lists whose genre string contains the filter
MatchingIds(cf_recs, cb_recs) ==
  {id \in IdsOf(cf_recs) \cup IdsOf(cb_recs) :
     Matches(args.genre_filter, MergedGenres(cf_recs, cb_recs, id))}

WeightedOutcome(cf, cb_recs) ==
  /\ MergedList(ret[1], cf[1], cb_recs, MatchingIds(cf[1], cb_recs),
                args.top_n)
  /\ \A i \in 1..Len(ret[1]) : Matches(args.genre_filter, ret[1][i][4])
  /\ Len(ret[1]) <= args.top_n
  /\ ret[2] = IF ret[1] = <<>> THEN TRUE ELSE cf[2] /\ cb_recs = <<>>

\* C16: 'weighted' merges the CF list and the content-based list made for
\* 2 * top_n and no genre filter, keeps the merged items whose genre string
\* contains the filter (letter case aside), returns the first top_n of them
\* in descending order of the combined score, and returns is_cold_start
\* true when that list is empty and otherwise exactly when CF fell back and
\* the content-based list is empty.
C16_WeightedFiltersTheUnion ==
  WeightedDone =>
    WeightedOutcome(HybridCF(args.top_n * 2, <<>>),
                    HybridCB(args.top_n * 2, <<>>))

\* a 'weighted' call with a genre filter that removes an item of the union
\* and keeps another
C16_Witness ==
  /\ WeightedDone
  /\ args.genre_filter # <<>>
  /\ ret[1] # <<>>
  /\ \E id \in IdsOf(HybridCF(args.top_n * 2, <<>>)[1])
               \cup IdsOf(HybridCB(args.top_n * 2, <<>>)) :
       ~Matches(args.genre_filter, CatalogEntryOf(id).genres)

\* a 'weighted' call whose list is empty after the filter although the
\* content-based list is not
C16_EmptyAfterFilter ==
  /\ WeightedDone
  /\ ret = <<<<>>, TRUE>>
  /\ HybridCB(args.top_n * 2, <<>>) # <<>>

\* a merging call with cf_weight 1 and cb_weight 0
CFOnlyDone ==
  /\ HybridDone
  /\ args.method \in {"mixed", "weighted"}
  /\ args.cf_weight = FOne
  /\ args.cb_weight = FZero

PositionOf(recs, id) == CHOOSE i \in 1..Len(recs) : recs[i][1] = id

\* two items of list that are both in pure are in the order pure has them in
SameRelativeOrder(list, pure) ==
  \A i, j \in 1..Len(list) :
    (i < j /\ list[i][1] \in IdsOf(pure) /\ list[j][1] \in IdsOf(pure))
      => PositionOf(pure, list[i][1]) < PositionOf(pure, list[j][1])

\* C17 as stated: with cf_weight 1 and cb_weight 0, 'weighted' and 'mixed'
\* order any two items that are both in their result and in the result of
\* the CF call (same top_n, same genre filter) as the CF call orders them.
C17_SameOrderAsCF ==
  CFOnlyDone =>
    SameRelativeOrder(ret[1], HybridCF(args.top_n, args.genre_filter)[1])

(***************************************************************************)
(* Properties of the evaluators                                            *)
(***************************************************************************)
EvaluateDone == op = "evaluate"

FastEvaluateDone == op = "fast_evaluate"

\* the items with a positive prediction in some evaluated user's list
Covered(results) ==
  {results.coverage_predictions[i][1] : i \in
     {j \in 1..Len(results.coverage_predictions) :
        FLt(FZero, results.coverage_predictions[j][2])}}

\* the evaluation that was made, made again with top_n + 1
EvaluationWithOneMore ==
  IF EvaluateDone
  THEN evaluate(args.test_users, matrix, movies, hash_order, args.top_n + 1,
                args.min_common, args.top_k)
  ELSE fast_evaluate(args.test_users, args.test_movies, matrix, movies,
                     hash_order, args.top_n + 1, args.min_common, args.top_k)

CoverageGrows(results, more) ==
  /\ Covered(results) \subseteq Covered(more)
  /\ FLe(results.coverage, more.coverage)

\* C18: with everything else fixed, the items covered by an evaluation with
\* top_n are covered by the evaluation with top_n + 1, and the coverage does
\* not decrease, for RecommenderEvaluator and for FastRecommenderEvaluator.
C18_CoverageGrowsWithTopN ==
  (EvaluateDone \/ FastEvaluateDone) =>
    CoverageGrows(ret, EvaluationWithOneMore)

CoverageGrewStrictly(results, more) ==
  /\ Covered(results) # {}
  /\ Covered(results) # Covered(more)
  /\ FLt(results.coverage, more.coverage)

\* an evaluation that covers an item, and more items with top_n + 1
C18_Witness == EvaluateDone /\ CoverageGrewStrictly(ret, EvaluationWithOneMore)

\* the same for the fast evaluator, with a list filled with popular movies
C18_FastWitness ==
  /\ FastEvaluateDone
  /\ CoverageGrewStrictly(ret, EvaluationWithOneMore)

(***************************************************************************)
(* The worked example of the similarity                                    *)
(***************************************************************************)
\* pearson_correlation has returned for the rows of u1 and u2 of the example
ExamplePearson(u1, u2) ==
  /\ matrix = ExampleMatrix
  /\ PearsonDone
  /\ args.user1 = u1
  /\ args.user2 = u2

\* find_similar_users has returned for user 1 of the example, min_common 2
ExampleFindSimilar ==
  /\ matrix = ExampleMatrix
  /\ op = "find_similar_users"
  /\ args.target = 1
  /\ args.min_common = 2

\* users 1 and 2 correlate strongly, and user 2 but not user 3 is similar
ExampleSimilarToUser2Only ==
  /\ ExamplePearson(1, 2) => FLt(FHalf(1), ret)
  /\ ExampleFindSimilar =>
       /\ \E i \in 1..Len(ret) : ret[i][1] = 2
       /\ \A i \in 1..Len(ret) : ret[i][1] # 3

\* C19 as stated: in the worked example the correlation of users 1 and 2 is
\* strongly positive, the correlation of users 1 and 3 is negative, and
\* find_similar_users(user 1) holds user 2 and not user 3.
C19_ExampleNegativeForUser3 ==
  /\ ExampleSimilarToUser2Only
  /\ ExamplePearson(1, 3) => FLt(ret, FZero)

\* C19 amended: as stated, except that the correlation of users 1 and 3 is
\* 0.0: user 3 rated the two shared items alike.
C19_ExampleZeroForUser3 ==
  /\ ExampleSimilarToUser2Only
  /\ ExamplePearson(1, 3) => ret = FZero

\* the correlation of users 1 and 3 of the example has been computed
C19_Witness == ExamplePearson(1, 3) /\ ZeroVariance(3, Shared(1, 3))

\* user 2 has been found similar to user 1 of the example
C19_SimilarFound == ExampleFindSimilar /\ Len(ret) = 1

(***************************************************************************)
(* Properties of the data loader and the serving path                      *)
(***************************************************************************)
LoadDone == op = "load_data"

ServingDone == op = "get_recommendations"

HasRecord(user_id) == \E rec \in ratings_of(matrix) : rec.userId = user_id

\* load_data has returned from a call with a user cap and a required user
\* who has a rating record
RequiredUserAsked ==
  /\ LoadDone
  /\ "required_user_id" \in DOMAIN args.kwargs
  /\ args.kwargs.max_users # None
  /\ HasRecord(args.kwargs.required_user_id[1])

\* C20: load_data called with a user cap and a required user id returns
\* ratings whose matrix has a row for the required user whenever the user has
\* a rating record, and get_recommendations gets its ratings from such a call
\* for the requested user.
C20_RequiredUserRetained ==
  /\ RequiredUserAsked =>
       /\ ret.raised = ""
       /\ args.kwargs.required_user_id[1]
            \in create_user_movie_matrix(ret.value[1]).index
  /\ (ServingDone /\ HasRecord(args.user_id)) => ret.raised = ""

\* the matrix built from the ratings that load_data returned
LoadedMatrix == create_user_movie_matrix(ret.value[1])

\* load_data has returned ratings
Loaded == LoadDone /\ ret.raised = ""

\* the number of rating records of records that key (a userId or a movieId)
\* has
CountOf(records, field, key) ==
  Cardinality({rec \in records : rec[field] = key})

\* the place of an id in a tie order
PlaceOf(tie_order, id) == CHOOSE i \in 1..Len(tie_order) : tie_order[i] = id

\* kept is what a cap keeps of the keys of a field: all keys when there is
\* no cap, else cap keys (all when there are fewer), none of them rated less
\* often than a key left out, and keys rated as often taken in tie order
KeptByCap(kept, records, field, cap, tie_order) ==
  LET keys == {rec[field] : rec \in records}
      before(a, b) ==
        \/ CountOf(records, field, a) > CountOf(records, field, b)
        \/ /\ CountOf(records, field, a) = CountOf(records, field, b)
           /\ PlaceOf(tie_order, a) < PlaceOf(tie_order, b)
  IN  IF cap = None \/ cap[1] <= 0 THEN kept = keys
      ELSE /\ kept \subseteq keys
           /\ Cardinality(kept) = Min({cap[1], Cardinality(keys)})
           /\ \A a \in kept, b \in keys \ kept : before(a, b)

\* the users the user cap of the call retains
RetainedUsers ==
  CHOOSE kept \in SUBSET Users :
    KeptByCap(kept, ratings_of(matrix), "userId",
              IF "max_users" \in DOMAIN args.kwargs
              THEN args.kwargs.max_users ELSE None, args.ties[1])

\* the items the item cap of the call retains, counted among the records of
\* the retained users
RetainedItems(users) ==
  CHOOSE kept \in SUBSET Movies :
    KeptByCap(kept, {rec \in ratings_of(matrix) : rec.userId \in users},
              "movieId",
              IF "max_movies" \in DOMAIN args.kwargs
              THEN args.kwargs.max_movies ELSE None, args.ties[2])

\* the record of the ratings file for a cell
RecordsOf(user_id, movie_id) ==
  {rec \in ratings_of(matrix) :
     rec.userId = user_id /\ rec.movieId = movie_id}

\* a cell is the rating of its record, and NaN (never 0) without a record
CellsAreRecords(mx) ==
  \A p \in mx.index \X mx.columns :
    IF RecordsOf(p[1], p[2]) = {} THEN isna(mx.val[p])
    ELSE \E rec \in RecordsOf(p[1], p[2]) : mx.val[p] = <<rec.rating>>

\* the retained users with a rating record for a retained item
RetainedRaters(users, items) ==
  {u \in users : \E m \in items : RecordsOf(u, m) # {}}

\* C21: after load_data with optional user and item caps and
\* create_user_movie_matrix, the matrix has exactly one row for every user
\* the user cap retains and one column for every item the item cap retains
\* (counted among the retained users), and a cell is a number only if the
\* pair has a rating record, never 0 for a missing rating.
C21_RowPerRetainedUser ==
  Loaded =>
    /\ LoadedMatrix.index = RetainedUsers
    /\ LoadedMatrix.columns = RetainedItems(RetainedUsers)
    /\ CellsAreRecords(LoadedMatrix)

\* C21 amended: the rows are the retained users who have a rating record
\* for a retained item; the columns and the cells are as claimed.
C21_RowPerRetainedRater ==
  Loaded =>
    /\ LoadedMatrix.index
         = RetainedRaters(RetainedUsers, RetainedItems(RetainedUsers))
    /\ LoadedMatrix.columns = RetainedItems(RetainedUsers)
    /\ CellsAreRecords(LoadedMatrix)

\* both caps were given, a retained user lost every record to the item cap
\* and a cell of the matrix is missing
C21_Witness ==
  /\ Loaded
  /\ args.kwargs.max_users # None
  /\ args.kwargs.max_movies # None
  /\ LoadedMatrix.index # RetainedUsers
  /\ \E p \in LoadedMatrix.index \X LoadedMatrix.columns :
       isna(LoadedMatrix.val[p])

(***************************************************************************)
(* Properties of the HTTP endpoint                                         *)
(***************************************************************************)
\* POST /api/recommendations has answered
RequestDone == op = "recommendations"

\* the list and the flag of the hybrid combiner for the request, on the
\* matrix of the loaded ratings
HybridAnswer(data, loaded) ==
  hybrid_recommendations(data.user_id, create_user_movie_matrix(loaded[1]),
                         loaded[2], hash_order, str_order, data.top_n,
                         data.cf_weight, data.cb_weight, 5, 50, data.genre,
                         data.hybrid_method)

\* C22: a well-formed request to the serving entry point completes without
\* an error and returns the recommendations and the cold-start flag that
\* the hybrid combiner computes with the weights and the method of the
\* request.
C22_RequestServedByHybrid ==
  (RequestDone
     /\ args.data.hybrid_method \in {"weighted", "mixed", "switching"}) =>
    /\ ret.status = 200
    /\ LET answer ==
             HybridAnswer(args.data,
                          load_data(ratings_of(matrix), movies,
                                    <<MAX_USERS>>, <<MAX_MOVIES>>,
                                    args.ties[1], args.ties[2]))
       IN  /\ ret.recommendations = answer[1]
           /\ ret.is_cold_start = (answer[2] /\ Len(answer[1]) > 0)

\* hybrid_recommendations has returned from a direct call
MethodDone == op = "hybrid_method"

KnownMethods == {"weighted", "mixed", "switching"}

\* a direct call, or a request, with a method name that is not known
UnknownAtHybrid == MethodDone /\ args.method \notin KnownMethods

UnknownAtEndpoint ==
  RequestDone /\ args.data.hybrid_method \notin KnownMethods

\* C23: a hybrid method name other than 'weighted', 'mixed' or 'switching'
\* produces a validation failure to the caller and no recommendation list
\* is computed for it, at hybrid_recommendations and at the HTTP endpoint.
C23_UnknownMethodRejected ==
  /\ UnknownAtHybrid => ret.raised # ""
  /\ UnknownAtEndpoint => (ret.status = 400 /\ ret.recommendations = <<>>)

\* C23 amended: an unknown method name is taken as 'weighted':
\* hybrid_recommendations returns what it returns for 'weighted', and the
\* endpoint answers what it answers to the same request with 'weighted'.
C23_UnknownMethodIsWeighted ==
  /\ UnknownAtHybrid =>
       ret = call_hybrid_recommendations(
               args.target, matrix, movies, hash_order, str_order,
               args.top_n, args.cf_weight, args.cb_weight, MaxTopK,
               args.genre_filter, "weighted")
  /\ UnknownAtEndpoint =>
       ret = api_recommendations(
               [args.data EXCEPT !.hybrid_method = "weighted"],
               ratings_of(matrix), movies, args.ties[1], args.ties[2],
               hash_order)

\* a call with an unknown method name returned a list of recommendations
C23_Witness ==
  /\ UnknownAtHybrid
  /\ ret.raised = ""
  /\ Len(ret.value[1]) > 0

\* a request with an unknown method name was answered
C23_EndpointWitness == UnknownAtEndpoint /\ ret.status = 500

(***************************************************************************)
(* 'weighted' against 'mixed'                                              *)
(***************************************************************************)
\* the (item id, combined score) pairs of a list
ScoredIds(list) == {<<list[i][1], list[i][3]>> : i \in 1..Len(list)}

\* a weighted call without a genre filter whose CF list and content-based
\* list of length 2 * top_n have at most top_n items: 'mixed' sees the same
\* two lists
SameListsForBoth(cf, cb_recs) ==
  /\ WeightedDone
  /\ args.genre_filter = <<>>
  /\ Len(cf[1]) <= args.top_n
  /\ Len(cb_recs) <= args.top_n

\* what 'mixed' returns for the arguments of the finished call
MixedAnswer ==
  hybrid_recommendations(args.target, matrix, movies, hash_order, str_order,
                         args.top_n, args.cf_weight, args.cb_weight,
                         args.min_common, args.top_k, args.genre_filter,
                         "mixed")

\* C24: without a genre filter and with at most top_n candidates on each
\* side, 'weighted' and 'mixed' return the same set of (item id, combined
\* score) pairs for every cf_weight and cb_weight, weights where one side is
\* 0 included.
C24_WeightedSameAsMixed ==
  SameListsForBoth(HybridCF(args.top_n * 2, <<>>),
                   HybridCB(args.top_n * 2, <<>>)) =>
    ScoredIds(ret[1]) = ScoredIds(MixedAnswer[1])

\* the two methods agree on the items with a positive combined score
C24_SameWhenPositive ==
  SameListsForBoth(HybridCF(args.top_n * 2, <<>>),
                   HybridCB(args.top_n * 2, <<>>)) =>
    {p \in ScoredIds(ret[1]) : FLt(FZero, p[2])} = ScoredIds(MixedAnswer[1])

(***************************************************************************)
(* Properties of the similarity cache of the fast evaluator                *)
(***************************************************************************)
\* a step that is a whole call of _get_similar_users_cached
LookupStep == op = "idle" /\ op' = "get_similar_users_cached"

\* the call has returned or raised
LookupDone == op = "get_similar_users_cached"

\* the entries of the cache are entries of the next state, unchanged
EntriesKept ==
  \A k \in DOMAIN evaluator.similarity_cache :
    /\ k \in DOMAIN evaluator'.similarity_cache
    /\ evaluator'.similarity_cache[k] = evaluator.similarity_cache[k]

\* a lookup of a key that has an entry returns the entry
StoredListReturned ==
  args'.cache_key \in DOMAIN evaluator.similarity_cache =>
    /\ ret'.raised = ""
    /\ ret'.value = evaluator.similarity_cache[args'.cache_key]

\* a lookup leaves the keys other than its own as they are
OtherKeysUntouched ==
  \A k \in CacheKeys \ {args'.cache_key} :
    /\ k \in DOMAIN evaluator'.similarity_cache
         <=> k \in DOMAIN evaluator.similarity_cache
    /\ k \in DOMAIN evaluator.similarity_cache =>
         evaluator'.similarity_cache[k] = evaluator.similarity_cache[k]

\* a lookup that raises stores nothing
NothingStoredOnRaise ==
  ret'.raised # "" => evaluator'.similarity_cache = evaluator.similarity_cache

\* C25: the similarity cache is keyed by (user_id, min_common_movies) and
\* write-once per key: over the calls made on one evaluator one after the
\* other, find_similar_users returns a list at most once for each key, an
\* entry is never overwritten or removed, a lookup of a stored key returns
\* the stored list, a lookup never creates or changes the entry of another
\* key, and a lookup whose computation raises stores nothing.
C25_CacheWriteOnce ==
  /\ [](\A k \in CacheKeys :
          history.computed[k] <= 1 /\ history.written[k] <= 1)
  /\ [][EntriesKept]_vars
  /\ [][LookupStep =>
          StoredListReturned /\ OtherKeysUntouched /\ NothingStoredOnRaise]_vars

\* a lookup returned the stored list of its key, which was computed once,
\* while the cache holds other keys
C25_Witness ==
  /\ LookupDone
  /\ args.hit
  /\ history.computed[args.cache_key] = 1
  /\ ret.value = evaluator.similarity_cache[args.cache_key]
  /\ Len(ret.value) > 0
  /\ Cardinality(DOMAIN evaluator.similarity_cache) > 1

\* a lookup on an evaluator without a training matrix raised
C25_RaisedWitness ==
  /\ LookupDone
  /\ ret.raised = "AttributeError"
  /\ evaluator.similarity_cache = <<>>

(***************************************************************************)
(* Concurrent lookups                                                      *)
(***************************************************************************)
\* every call of _get_similar_users_cached has returned or raised
AllReturned == \A t \in Threads : frames[t].pc \in {"idle", "done"}

\* sys.stdout is the stream it was before the calls
StdoutRestored == AllReturned => sys_stdout = "stdout"

\* no key has been written more than once
KeysWrittenOnce == \A k \in CacheKeys : history.written[k] <= 1

\* C26: for every interleaving of concurrent _get_similar_users_cached
\* calls, once all calls have returned sys.stdout is the object it was
\* before the calls, and each cache key has been written at most once.
C26_OnlyTheCacheShared == StdoutRestored /\ KeysWrittenOnce

\* two lookups have returned in threads that both computed
C26_BothComputed ==
  /\ AllReturned
  /\ \E k \in CacheKeys : history.computed[k] = 2

(***************************************************************************)
(* The cache against the current training matrix                           *)
(***************************************************************************)
\* the entry of a key is what find_similar_users returns on the training
\* matrix the evaluator holds
EntryIsCurrent(k) ==
  /\ evaluator.train_matrix # None
  /\ evaluator.similarity_cache[k]
       = find_similar_users(k[1], evaluator.train_matrix[1], k[2])

\* C30: after any sequence of split_data and evaluate calls on one
\* evaluator, its test_ratio and random_seed changed in between or not,
\* every similarity-cache entry for (user_id, min_common_movies) equals
\* find_similar_users(user_id, current train_matrix, min_common_movies).
C30_CacheMatchesTrainMatrix ==
  \A k \in DOMAIN evaluator.similarity_cache : EntryIsCurrent(k)

\* evaluate has returned and used an entry computed on an earlier matrix
C30_StaleEntryUsed ==
  /\ op = "evaluator_evaluate"
  /\ \E k \in DOMAIN evaluator.similarity_cache :
       k[2] = args.min_common /\ ~EntryIsCurrent(k)

(***************************************************************************)
(* The contributing users of a CF recommendation                           *)
(***************************************************************************)
\* generate_recommendations has returned a list made of predictions
CFPredicted == CFDone /\ ~ret[2]

\* the users of the first n entries of the similarity ranking
FirstOf(similar_users, n) ==
  {similar_users[i][1] : i \in 1..Len(Take(similar_users, n))}

\* the ids are in the order of the ranking, none twice
InRankingOrder(ids, similar_users) ==
  \A i, j \in 1..Len(ids) :
    i < j => PositionOf(similar_users, ids[i]) < PositionOf(similar_users, ids[j])

\* the contributing users of a recommendation are raters of its movie among
\* the first n of the ranking, in ranking order, at most CF_CONTRIBUTORS
ContributorsAmong(rec, similar_users, n) ==
  /\ \A i \in 1..Len(rec[5]) :
       /\ rec[5][i] \in FirstOf(similar_users, n)
       /\ ~isna(matrix.val[<<rec[5][i], rec[1]>>])
  /\ InRankingOrder(rec[5], similar_users)
  /\ Len(rec[5]) <= CF_CONTRIBUTORS

ContributorsOfTheScore(similar_users) ==
  \A i \in 1..Len(ret[1]) :
    /\ ContributorsAmong(ret[1][i], similar_users, args.top_k)
    /\ FLt(FZero, ret[1][i][3]) => Len(ret[1][i][5]) > 0

RatersAmongTheChecked(similar_users) ==
  \A i \in 1..Len(ret[1]) :
    /\ ContributorsAmong(ret[1][i], similar_users, 2 * CF_CONTRIBUTORS)
    /\ (FLt(FZero, ret[1][i][3]) /\ args.top_k <= 2 * CF_CONTRIBUTORS) =>
         Len(ret[1][i][5]) > 0

ListedBeyondTopK(similar_users) ==
  \E i \in 1..Len(ret[1]) :
    /\ Len(ret[1][i][5]) > args.top_k
    /\ \E j \in 1..Len(ret[1][i][5]) :
         ret[1][i][5][j] \notin FirstOf(similar_users, args.top_k)

C27_TenListed ==
  /\ CFPredicted
  /\ \E i \in 1..Len(ret[1]) : Len(ret[1][i][5]) = CF_CONTRIBUTORS

\* the ids of a returned list
Ids(recommendations) == [i \in 1..Len(recommendations) |-> recommendations[i][1]]

\* an entry's score is never smaller than the next entry's
NonIncreasing(scores) ==
  \A i \in 1..(Len(scores) - 1) : FLe(scores[i + 1], scores[i])

\* no id is listed twice
EachOnce(ids) == \A i, j \in 1..Len(ids) : i < j => ids[i] # ids[j]

\* the movies the target user of the call has rated in the matrix
RatedByTarget ==
  IF args.target \in matrix.index THEN rated_by(matrix, args.target) ELSE {}

\* C28: under 'switching', 'mixed' and 'weighted', for every user, weights
\* and genre filter, the list hybrid_recommendations returns has at most
\* top_n entries, is non-increasing in score, holds each movie id at most
\* once and holds no movie the target user has rated in the matrix.
C28_HybridListWellFormed ==
  HybridDone =>
    /\ Len(ret[1]) <= args.top_n
    /\ NonIncreasing(Scores(ret[1]))
    /\ EachOnce(Ids(ret[1]))
    /\ \A i \in 1..Len(ret[1]) : Ids(ret[1])[i] \notin RatedByTarget

\* a combined list cut to top_n >= 2 entries of different scores, for a
\* target who has rated movies
C28_Witness ==
  /\ HybridDone
  /\ args.method \in {"mixed", "weighted"}
  /\ args.top_n >= 2
  /\ Len(ret[1]) = args.top_n
  /\ FLt(Scores(ret[1])[2], Scores(ret[1])[1])
  /\ RatedByTarget # {}

\* the content-based list returned by 'switching', two entries or more
C28_SwitchingWitness ==
  /\ SwitchingDone
  /\ ret[2]
  /\ Len(ret[1]) >= 2
  /\ RatedByTarget # {}

\* a hybrid call for a target user who is not in the matrix
HybridAbsent == HybridDone /\ args.target \notin matrix.index

\* C29: for a target user absent from the matrix hybrid_recommendations
\* returns the empty list with is_cold_start False under every method, the
\* same flag for 'switching', 'mixed' and 'weighted'.
C29_AbsentUserNotColdStart ==
  HybridAbsent => ret = <<<<>>, FALSE>>

\* the empty list with is_cold_start True for an absent user
C29_AbsentReportedCold == HybridAbsent /\ ret = <<<<>>, TRUE>>

\* 'mixed' for an absent user: the empty list with is_cold_start False
C29_AbsentMixedNotCold ==
  HybridAbsent /\ args.method = "mixed" /\ ret = <<<<>>, FALSE>>

====
